---------------------------- MODULE Spec2Model ----------------------------
(***************************************************************************)
(* A model of the villa-upsell admin client: the Orders view (client-side  *)
(* search, sort, selection, per-order and bulk status updates), the        *)
(* session store, the image-bearing entity forms and the mutation /        *)
(* cache-invalidation discipline of react-query.                           *)
(*                                                                         *)
(* Strings are sequences of one-letter strings; an optional relation of a  *)
(* record (order.upsell, order.property, order.vendor) and the query data  *)
(* itself (orders, undefined until a fetch succeeds) are sequences of      *)
(* length 0 (absent) or 1 (present).                                       *)
(***************************************************************************)
EXTENDS Integers, Sequences, FiniteSets, TLC

VARIABLES
    \* ---- Orders view: component state (Orders.tsx 33-42) and query data
    orders,                  \* useQuery data: None or Some(collection)
    searchTerm,
    sortBy,
    sortOrder,
    viewMode,
    selectedOrders,          \* number[] of order ids
    showActionsMenu,         \* 0 (null) or an order id
    filteredAndSortedOrders, \* useMemo, recomputed on every render
    stats,                   \* useMemo, recomputed on every render
    \* ---- Orders view: network
    queryStatus,             \* "loading" | "success" | "error"
    isFetching,              \* a GET /orders is in flight
    isInvalidated,           \* invalidateQueries('orders') since the last data
    inflight,                \* PUT requests awaiting their response, oldest first
    toast,                   \* the last toast shown ("" before the first)
    \* ---- Session store (AuthProvider, part_001 35-85)
    storedToken,             \* localStorage 'token'
    token,
    user,
    authLoading,             \* isLoading
    meInFlight,              \* initAuth runs awaiting GET /me
    loginInFlight,           \* login calls awaiting POST /login
    lastSessionOp,           \* the session operation that completed last
    loginError,              \* what the last rejected login received and threw
    \* ---- Image-bearing entity form (PropertyForm.tsx, UpsellForm.tsx)
    formKind,                \* "property" | "upsell"
    isEditing,
    entityQuery,             \* status of the single-entity query
    imageUrlField,           \* form value hero_image_url / image_url
    imagePreview,
    selectedFile,
    submits,                 \* the runs of onSubmit, oldest first
    observed,                \* the submit whose mutation the hook observes, or 0
    formRequests,            \* requests issued by the form, oldest first
    formToast,
    formOpen,                \* FALSE once the form has navigated away
    \* ---- Mutations and the query cache (react-query)
    mutations,               \* every mutation started: its kind and outcome
    cacheInvalidations,      \* invalidateQueries calls: key and causing mutation
    \* ---- Delete buttons (Properties, Upsells, Vendors lists; PropertyForm)
    deleteSite,              \* the page on screen
    prompts,                 \* window.confirm calls and their answers
    deleteMenu,              \* showActionsMenu of the list page, or 0
    deleteToast,
    deleteNavigated,         \* PropertyForm navigated to the list
    \* ---- Analytics revenue chart (Analytics.tsx)
    period,
    revenueData,             \* None until the series of the period arrived
    revenueLoading,
    recentRevenueData,
    recentMaxRevenue,
    chart,                   \* what is on screen: its branch and its bars
    \* ---- User-triggered operations and the Settings status poll
    userActions,             \* clicks and submits that start an operation
    errorToasts,             \* toast.error calls: the operation each reports
    profileLoaded,           \* Settings: the user-profile query has data
    pollRequests,            \* GET /stripe/connect/status sent by the interval
    \* ---- Orders: server-side filters and the GET /orders requests
    statusFilter,
    dateFilter,
    vendorFilter,
    ordersRequests,          \* every GET /orders sent: its key, its parameters
    ordersCache,             \* query cache: data held under each orders key
    \* ---- Sign-up page (SignUp.tsx)
    signUpData,              \* the form's field values
    signUpSubmitted,         \* formState.isSubmitted
    signUpErrors,            \* formState.errors: the fields that failed validation
    signUpLoading,           \* isLoading
    registerRequests,        \* every POST /register sent: body and outcome
    signUpToast,
    location,                \* the route shown
    \* ---- Entity list pages (Properties, Vendors, Upsells)
    listKind,                \* which list page is mounted
    listData,                \* useQuery data: None or Some(collection)
    listSearchTerm,
    listed,                  \* filteredProperties / filteredVendors / filteredUpsells
    \* ---- Upsells list: the active toggle of one upsell
    backendActive,           \* is_active as the backend holds it
    initialActive,           \* is_active when the page was opened
    loadedActive,            \* upsell.is_active in the loaded collection
    toggleRequests,          \* every PUT /upsells/:id sent by the toggle
    upsellsFetch,            \* the refetch of the collection, if one is running
    \* ---- Analytics: CSV export
    isExporting,
    exportRequests,          \* every GET /dashboard/export-accounting sent
    exportToasts             \* the notifications of handleExportCSV

viewVars == <<orders, searchTerm, sortBy, sortOrder, viewMode, selectedOrders,
              showActionsMenu, filteredAndSortedOrders, stats>>
netVars  == <<queryStatus, isFetching, isInvalidated, inflight, toast>>
authVars == <<storedToken, token, user, authLoading, meInFlight, loginInFlight,
              lastSessionOp, loginError>>
formVars == <<formKind, isEditing, entityQuery, imageUrlField, imagePreview, selectedFile,
              submits, observed, formRequests, formToast, formOpen>>
mutVars  == <<mutations, cacheInvalidations>>
delVars  == <<deleteSite, prompts, deleteMenu, deleteToast, deleteNavigated>>
chartVars == <<period, revenueData, revenueLoading, recentRevenueData,
               recentMaxRevenue, chart>>
opsVars  == <<userActions, errorToasts, profileLoaded, pollRequests>>
filterVars == <<statusFilter, dateFilter, vendorFilter, ordersRequests, ordersCache>>
signVars == <<signUpData, signUpSubmitted, signUpErrors, signUpLoading, registerRequests, signUpToast,
              location>>
listVars == <<listKind, listData, listSearchTerm, listed>>
toggleVars == <<backendActive, initialActive, loadedActive, toggleRequests, upsellsFetch>>
exportVars == <<isExporting, exportRequests, exportToasts>>
laterVars == <<signVars, listVars, toggleVars, exportVars>>
pagesVars == <<delVars, chartVars, opsVars, filterVars, laterVars>>
vars     == <<viewVars, netVars, authVars, formVars, mutVars, pagesVars>>

(***************************************************************************)
(* Bounds.                                                                 *)
(***************************************************************************)
MaxOrders == 3      \* longest collection loaded into the view
MaxInflight == 1    \* PUT requests awaiting a response at one time
MaxPending == 2     \* session requests awaiting a response at one time
MaxSubmits == 2     \* submissions of one form
MaxMutations == 2   \* mutations started in one behaviour

(***************************************************************************)
(* Options and small helpers.                                              *)
(***************************************************************************)
None == <<>>
Some(x) == <<x>>
NULL == "null"

Last(s) == s[Len(s)]
Front(s) == SubSeq(s, 1, Len(s) - 1)
Range(s) == {s[i] : i \in 1..Len(s)}

RECURSIVE SumSeq(_)
SumSeq(s) == IF s = <<>> THEN 0 ELSE s[1] + SumSeq(Tail(s))

\* Array.prototype.filter is SelectSeq: it keeps the elements' order.

(***************************************************************************)
(* JavaScript string and number conversions used by the view.              *)
(***************************************************************************)
ToLowerChar(c) ==
    CASE c = "A" -> "a"
      [] c = "B" -> "b"
      [] OTHER -> c

toLowerCase(s) == [i \in 1..Len(s) |-> ToLowerChar(s[i])]

\* String.prototype.includes: t occurs in s at some position.
includes(s, t) ==
    \E i \in 0..(Len(s) - Len(t)) : SubSeq(s, i + 1, i + Len(t)) = t

\* Number.prototype.toString of a non-negative integer: its decimal digits.
RECURSIVE NumberToString(_)
NumberToString(n) ==
    IF n < 10 THEN <<n>> ELSE Append(NumberToString(n \div 10), n % 10)

\* parseFloat of a digit string.
RECURSIVE parseFloat(_)
parseFloat(s) ==
    IF s = <<>> THEN 0 ELSE 10 * parseFloat(Front(s)) + Last(s)

\* new Date(created_at).getTime(): created_at is a digit string counting
\* days; the time is monotone in it.
DateGetTime(s) == parseFloat(s)

(***************************************************************************)
(* Orders the backend can return (types Order, part_000 352-373).          *)
(***************************************************************************)
Statuses == {"pending", "confirmed", "fulfilled", "cancelled"}

Order(id, name, email, upsell, property, vendor, created, amount, status) ==
    [id |-> id, guest_name |-> name, guest_email |-> email,
     upsell |-> upsell, property |-> property, vendor |-> vendor,
     created_at |-> created, amount |-> amount, status |-> status]

OrderPool ==
    { Order(1, <<"A", "b">>, <<"a">>, Some([title |-> <<"B">>]), None, None,
            <<0, 2>>, 10, "pending"),
      Order(2, <<"b">>, <<"b">>, None, Some([name |-> <<"a", "B">>]), None,
            <<0, 1>>, 5, "cancelled"),
      Order(3, <<"a">>, <<"a">>, None, None, Some([name |-> <<"B", "A">>]),
            <<1, 0>>, 20, "confirmed"),
      Order(4, <<"B">>, <<"b", "b">>, None, None, None,
            <<0, 1>>, 5, "fulfilled") }

\* Every collection of at most MaxOrders distinct orders, in every order.
Collections ==
    UNION { { s \in [1..n -> OrderPool] :
                \A i, j \in 1..n : i # j => s[i].id # s[j].id } : n \in 0..MaxOrders }

SearchTerms == { <<>>, <<"a">>, <<"B", "a">>, <<"a", "a">> }
SortKeys == {"date", "amount", "status"}
SortOrders == {"asc", "desc"}
ViewModes == {"card", "table"}

(***************************************************************************)
(* The derived list: filteredAndSortedOrders (Orders.tsx 88-128).          *)
(***************************************************************************)
\* order.upsell?.title.toLowerCase().includes(term): undefined (falsy) when
\* the relation is absent.
OptionalIncludes(rel, field, term) ==
    IF rel = None THEN FALSE ELSE includes(toLowerCase(rel[1][field]), term)


\* A search that lower-cases the fields but not the term.
matchesSearchRawTerm(order, term) ==
    \/ includes(toLowerCase(order.guest_name), term)
    \/ includes(toLowerCase(order.guest_email), term)
    \/ OptionalIncludes(order.upsell, "title", term)
    \/ OptionalIncludes(order.property, "name", term)
    \/ OptionalIncludes(order.vendor, "name", term)

matchesSearch(order, term) ==
    \/ includes(toLowerCase(order.guest_name), toLowerCase(term))
    \/ includes(toLowerCase(order.guest_email), toLowerCase(term))
    \/ OptionalIncludes(order.upsell, "title", toLowerCase(term))
    \/ OptionalIncludes(order.property, "name", toLowerCase(term))
    \/ OptionalIncludes(order.vendor, "name", toLowerCase(term))

\* A rank by the statuses' alphabetical order.
statusOrderAlphabetical(status) ==
    CASE status = "cancelled" -> 1
      [] status = "confirmed" -> 2
      [] status = "fulfilled" -> 3
      [] status = "pending" -> 4
      [] OTHER -> 0

\* statusOrder[status] || 0
statusOrder(status) ==
    CASE status = "pending" -> 1
      [] status = "confirmed" -> 2
      [] status = "fulfilled" -> 3
      [] status = "cancelled" -> 4
      [] OTHER -> 0

SortValue(order, by) ==
    CASE by = "date" -> DateGetTime(order.created_at)
      [] by = "amount" -> parseFloat(NumberToString(order.amount))
      [] by = "status" -> statusOrder(order.status)

\* A comparator that ignores the direction toggle.
compareIgnoringSortOrder(a, b, by, ord) ==
    SortValue(b, by) - SortValue(a, by)

\* The comparator handed to Array.prototype.sort.
compare(a, b, by, ord) ==
    IF ord = "asc" THEN SortValue(a, by) - SortValue(b, by)
    ELSE SortValue(b, by) - SortValue(a, by)

\* Array.prototype.sort is stable: an element goes after every element that
\* does not compare greater than it.
RECURSIVE InsertSorted(_, _, _, _)
InsertSorted(x, s, by, ord) ==
    IF s = <<>> THEN <<x>>
    ELSE IF compare(Last(s), x, by, ord) > 0
         THEN Append(InsertSorted(x, Front(s), by, ord), Last(s))
         ELSE Append(s, x)

RECURSIVE ArraySort(_, _, _)
ArraySort(s, by, ord) ==
    IF s = <<>> THEN <<>>
    ELSE InsertSorted(Last(s), ArraySort(Front(s), by, ord), by, ord)

FilteredAndSortedOrders(o, term, by, ord) ==
    IF o = None THEN <<>>
    ELSE LET Matches(order) == matchesSearch(order, term)
         IN ArraySort(SelectSeq(o[1], Matches), by, ord)

(***************************************************************************)
(* Statistics (Orders.tsx 130-142).                                        *)
(***************************************************************************)
CountStatus(s, status) ==
    LET Is(order) == order.status = status IN Len(SelectSeq(s, Is))

\* Statistics over the search-narrowed rows instead of the loaded collection.
StatsOfSearchResult(o) ==
    LET Matches(order) == matchesSearch(order, searchTerm)
        rows == IF o = None THEN <<>> ELSE SelectSeq(o[1], Matches)
    IN [total |-> Len(rows),
        revenue |-> SumSeq([i \in 1..Len(rows) |->
                              parseFloat(NumberToString(rows[i].amount))]),
        pending |-> CountStatus(rows, "pending"),
        confirmed |-> CountStatus(rows, "confirmed"),
        fulfilled |-> CountStatus(rows, "fulfilled"),
        cancelled |-> CountStatus(rows, "cancelled")]

Stats(o) ==
    IF o = None
    THEN [total |-> 0, revenue |-> 0, pending |-> 0, confirmed |-> 0,
          fulfilled |-> 0, cancelled |-> 0]
    ELSE [total |-> Len(o[1]),
          revenue |-> SumSeq([i \in 1..Len(o[1]) |->
                                parseFloat(NumberToString(o[1][i].amount))]),
          pending |-> CountStatus(o[1], "pending"),
          confirmed |-> CountStatus(o[1], "confirmed"),
          fulfilled |-> CountStatus(o[1], "fulfilled"),
          cancelled |-> CountStatus(o[1], "cancelled")]

\* One render: both memos are recomputed from the new state.
Render ==
    /\ filteredAndSortedOrders' =
           FilteredAndSortedOrders(orders', searchTerm', sortBy', sortOrder')
    /\ stats' = Stats(orders')
    /\ UNCHANGED <<authVars, formVars, mutVars, pagesVars>>

\* The view's controls exist only when the loading skeleton is not shown
\* (Orders.tsx 195).
Rendered == queryStatus # "loading"

Ids(s) == [i \in 1..Len(s) |-> s[i].id]

(***************************************************************************)
(* Client-side controls.                                                   *)
(***************************************************************************)
SetSearchTerm(t) ==
    /\ Rendered
    /\ searchTerm' = t
    /\ UNCHANGED <<orders, sortBy, sortOrder, viewMode, selectedOrders,
                   showActionsMenu>>
    /\ UNCHANGED netVars
    /\ Render

SetSortBy(b) ==
    /\ Rendered
    /\ sortBy' = b
    /\ UNCHANGED <<orders, searchTerm, sortOrder, viewMode, selectedOrders,
                   showActionsMenu>>
    /\ UNCHANGED netVars
    /\ Render

ToggleSortOrder ==
    /\ Rendered
    /\ sortOrder' = IF sortOrder = "asc" THEN "desc" ELSE "asc"
    /\ UNCHANGED <<orders, searchTerm, sortBy, viewMode, selectedOrders,
                   showActionsMenu>>
    /\ UNCHANGED netVars
    /\ Render

SetViewMode(m) ==
    /\ Rendered
    /\ viewMode' = m
    /\ UNCHANGED <<orders, searchTerm, sortBy, sortOrder, selectedOrders,
                   showActionsMenu>>
    /\ UNCHANGED netVars
    /\ Render

\* A checkbox that makes the ticked order the whole selection.
SelectOrderResultReplacing(prev, orderId) ==
    IF orderId \in Range(prev) THEN <<>> ELSE <<orderId>>

\* prev.includes(id) ? prev.filter(x => x !== id) : [...prev, id]
SelectOrderResult(prev, orderId) ==
    IF orderId \in Range(prev)
    THEN LET Other(x) == x # orderId IN SelectSeq(prev, Other)
    ELSE Append(prev, orderId)

\* The row checkbox exists in table mode only (Orders.tsx 604-611).
handleSelectOrder(orderId) ==
    /\ Rendered
    /\ viewMode = "table"
    /\ orderId \in Range(Ids(filteredAndSortedOrders))
    /\ selectedOrders' = SelectOrderResult(selectedOrders, orderId)
    /\ UNCHANGED <<orders, searchTerm, sortBy, sortOrder, viewMode,
                   showActionsMenu>>
    /\ UNCHANGED netVars
    /\ Render

SelectAllResult(selected, list) ==
    IF Len(selected) = Len(list) THEN <<>> ELSE Ids(list)

\* The header checkbox exists in table mode only (Orders.tsx 567-574).
handleSelectAll ==
    /\ Rendered
    /\ viewMode = "table"
    /\ selectedOrders' = SelectAllResult(selectedOrders, filteredAndSortedOrders)
    /\ UNCHANGED <<orders, searchTerm, sortBy, sortOrder, viewMode,
                   showActionsMenu>>
    /\ UNCHANGED netVars
    /\ Render

(***************************************************************************)
(* Each specification below runs one part of the client; the other parts   *)
(* stay as constructed.                                                    *)
(***************************************************************************)
SessionIdle ==
    /\ storedToken = NULL
    /\ token = NULL
    /\ user = NULL
    /\ authLoading = FALSE
    /\ meInFlight = 0
    /\ loginInFlight = 0
    /\ lastSessionOp = "startup"
    /\ loginError = [message |-> NULL, thrown |-> NULL]

FormIdle ==
    /\ formKind = "property"
    /\ isEditing = FALSE
    /\ entityQuery = "idle"
    /\ imageUrlField = NULL
    /\ imagePreview = NULL
    /\ selectedFile = NULL
    /\ submits = <<>>
    /\ observed = 0
    /\ formRequests = <<>>
    /\ formToast = [level |-> "none", text |-> ""]
    /\ formOpen = FALSE

MutationsIdle ==
    /\ mutations = <<>>
    /\ cacheInvalidations = {}

DeleteIdle ==
    /\ deleteSite = "none"
    /\ prompts = <<>>
    /\ deleteMenu = 0
    /\ deleteToast = [level |-> "none", text |-> ""]
    /\ deleteNavigated = FALSE

ChartIdle ==
    /\ period = "30"
    /\ revenueData = None
    /\ revenueLoading = FALSE
    /\ recentRevenueData = <<>>
    /\ recentMaxRevenue = 0
    /\ chart = [branch |-> "none", bars |-> <<>>]

OpsIdle ==
    /\ userActions = 0
    /\ errorToasts = <<>>
    /\ profileLoaded = FALSE
    /\ pollRequests = 0

FiltersIdle ==
    /\ statusFilter = ""
    /\ dateFilter = ""
    /\ vendorFilter = ""
    /\ ordersRequests = <<>>
    /\ ordersCache = <<>>

SignUpIdle ==
    /\ signUpData = [name |-> <<>>, email |-> <<>>, password |-> <<>>,
                     password_confirmation |-> <<>>, role |-> "owner",
                     agree_to_terms |-> FALSE]
    /\ signUpSubmitted = FALSE
    /\ signUpErrors = {}
    /\ signUpLoading = FALSE
    /\ registerRequests = <<>>
    /\ signUpToast = [level |-> "none", text |-> ""]
    /\ location = "/"

ListIdle ==
    /\ listKind = "none"
    /\ listData = None
    /\ listSearchTerm = <<>>
    /\ listed = <<>>

ToggleIdle ==
    /\ backendActive = FALSE
    /\ initialActive = FALSE
    /\ loadedActive = FALSE
    /\ toggleRequests = <<>>
    /\ upsellsFetch = [phase |-> "idle", is_active |-> FALSE]

ExportIdle ==
    /\ isExporting = FALSE
    /\ exportRequests = <<>>
    /\ exportToasts = <<>>

LaterIdle == SignUpIdle /\ ListIdle /\ ToggleIdle /\ ExportIdle

PagesIdle == DeleteIdle /\ ChartIdle /\ OpsIdle /\ FiltersIdle /\ LaterIdle

(***************************************************************************)
(* The view over one loaded collection: search, sort, selection.           *)
(***************************************************************************)
InitView ==
    /\ SessionIdle /\ FormIdle /\ MutationsIdle /\ PagesIdle
    /\ orders \in {None} \cup {Some(c) : c \in Collections}
    /\ searchTerm = <<>>
    /\ sortBy = "date"
    /\ sortOrder = "desc"
    /\ viewMode = "card"
    /\ selectedOrders = <<>>
    /\ showActionsMenu = 0
    /\ filteredAndSortedOrders = FilteredAndSortedOrders(orders, <<>>, "date", "desc")
    /\ stats = Stats(orders)
    /\ queryStatus = IF orders = None THEN "error" ELSE "success"
    /\ isFetching = FALSE
    /\ isInvalidated = FALSE
    /\ inflight = <<>>
    /\ toast = ""

NextView ==
    \/ \E t \in SearchTerms : SetSearchTerm(t)
    \/ \E b \in SortKeys : SetSortBy(b)
    \/ ToggleSortOrder
    \/ \E m \in ViewModes : SetViewMode(m)
    \/ \E id \in 1..Cardinality(OrderPool) : handleSelectOrder(id)
    \/ handleSelectAll

SpecView == InitView /\ [][NextView]_vars

(***************************************************************************)
(* The orders query (Orders.tsx 45-54) under react-query: a fetch that     *)
(* starts with no data shows the loading skeleton; a refetch keeps the     *)
(* data (and the status) until it settles.                                 *)
(***************************************************************************)
PoolById(i) == CHOOSE o \in OrderPool : o.id = i

\* What GET /orders answers in the specifications that model the network.
BulkCollections == { <<PoolById(1), PoolById(2)>>, <<PoolById(2)>> }
StatusCollections == { <<PoolById(1), PoolById(2), PoolById(3)>>,
                       <<PoolById(4), PoolById(3)>> }
NetSearchTerms == { <<>>, <<"a", "a">> }

StartFetch ==
    /\ isFetching' = TRUE
    /\ queryStatus' = IF orders = None THEN "loading" ELSE queryStatus

\* queryClient.invalidateQueries('orders'): mark the mounted query invalid
\* and refetch it.
InvalidateOrders ==
    /\ isInvalidated' = TRUE
    /\ StartFetch

FetchResolve(c) ==
    /\ isFetching
    /\ orders' = Some(c)
    /\ queryStatus' = "success"
    /\ isFetching' = FALSE
    /\ isInvalidated' = FALSE
    /\ UNCHANGED <<searchTerm, sortBy, sortOrder, viewMode, selectedOrders,
                   showActionsMenu, inflight, toast>>
    /\ Render

FetchReject ==
    /\ isFetching
    /\ queryStatus' = "error"
    /\ isFetching' = FALSE
    /\ UNCHANGED <<orders, searchTerm, sortBy, sortOrder, viewMode,
                   selectedOrders, showActionsMenu, isInvalidated, inflight, toast>>
    /\ Render

\* The Refresh button (Orders.tsx 227).
Refetch ==
    /\ Rendered
    /\ StartFetch
    /\ UNCHANGED <<viewVars, isInvalidated, inflight, toast>>
    /\ UNCHANGED <<authVars, formVars, mutVars, pagesVars>>

RemoveAt(s, i) == SubSeq(s, 1, i - 1) \o SubSeq(s, i + 1, Len(s))

(***************************************************************************)
(* Bulk status update (Orders.tsx 71-84, 190-193, 411-443).                *)
(***************************************************************************)
BulkTargets == {"confirmed", "fulfilled", "cancelled"}

\* api.put('/orders/bulk-update', { ids, status })
bulkMutationFn(ids, status) ==
    [kind |-> "bulk", ids |-> ids, status |-> status]

handleBulkAction(status) ==
    /\ Rendered
    /\ Len(selectedOrders) > 0
    /\ Len(inflight) < MaxInflight
    /\ inflight' = Append(inflight, bulkMutationFn(selectedOrders, status))
    /\ UNCHANGED <<viewVars, queryStatus, isFetching, isInvalidated, toast>>
    /\ UNCHANGED <<authVars, formVars, mutVars, pagesVars>>

\* bulkUpdateMutation.onSuccess
BulkOnSuccess ==
    /\ InvalidateOrders
    /\ toast' = "orders updated"
    /\ selectedOrders' = <<>>

\* An error handler that also drops the selection.
BulkOnErrorClearingSelection ==
    /\ toast' = "Failed to update orders"
    /\ selectedOrders' = <<>>
    /\ UNCHANGED <<queryStatus, isFetching, isInvalidated>>

\* bulkUpdateMutation.onError
BulkOnError ==
    /\ toast' = "Failed to update orders"
    /\ UNCHANGED <<selectedOrders, queryStatus, isFetching, isInvalidated>>

BulkRespond(i, ok) ==
    /\ i \in 1..Len(inflight)
    /\ inflight[i].kind = "bulk"
    /\ inflight' = RemoveAt(inflight, i)
    /\ IF ok THEN BulkOnSuccess ELSE BulkOnError
    /\ UNCHANGED <<orders, searchTerm, sortBy, sortOrder, viewMode, showActionsMenu>>
    /\ Render

InitNet ==
    /\ SessionIdle /\ FormIdle /\ MutationsIdle /\ PagesIdle
    /\ orders = None
    /\ searchTerm = <<>>
    /\ sortBy = "date"
    /\ sortOrder = "desc"
    /\ viewMode = "card"
    /\ selectedOrders = <<>>
    /\ showActionsMenu = 0
    /\ filteredAndSortedOrders = <<>>
    /\ stats = Stats(None)
    /\ queryStatus = "loading"
    /\ isFetching = TRUE
    /\ isInvalidated = FALSE
    /\ inflight = <<>>
    /\ toast = ""

NextBulk ==
    \/ \E c \in BulkCollections : FetchResolve(c)
    \/ FetchReject
    \/ Refetch
    \/ \E t \in NetSearchTerms : SetSearchTerm(t)
    \/ \E m \in ViewModes : SetViewMode(m)
    \/ \E id \in 1..Cardinality(OrderPool) : handleSelectOrder(id)
    \/ handleSelectAll
    \/ \E st \in BulkTargets : handleBulkAction(st)
    \/ \E i \in 1..MaxInflight, ok \in BOOLEAN : BulkRespond(i, ok)

SpecBulk == InitNet /\ [][NextBulk]_vars

(***************************************************************************)
(* Per-order status update (Orders.tsx 56-69, 503-553, 666-716).           *)
(***************************************************************************)
\* A table menu that offers Cancel for every status.
OfferedTransitionsTableCancelsAny(mode, status) ==
    IF mode = "card"
    THEN (IF status = "pending" THEN {"confirmed"} ELSE {})
         \cup (IF status = "confirmed" THEN {"fulfilled"} ELSE {})
         \cup (IF status = "pending" \/ status = "confirmed"
               THEN {"cancelled"} ELSE {})
    ELSE (IF status = "pending" THEN {"confirmed"} ELSE {})
         \cup (IF status = "confirmed" THEN {"fulfilled"} ELSE {})
         \cup {"cancelled"}

\* The buttons the open actions menu of an order renders, by view mode.
OfferedTransitions(mode, status) ==
    IF mode = "card"
    THEN (IF status = "pending" THEN {"confirmed"} ELSE {})
         \cup (IF status = "confirmed" THEN {"fulfilled"} ELSE {})
         \cup (IF status = "pending" \/ status = "confirmed"
               THEN {"cancelled"} ELSE {})
    ELSE (IF status = "pending" THEN {"confirmed"} ELSE {})
         \cup (IF status = "confirmed" THEN {"fulfilled"} ELSE {})
         \cup (IF status = "pending" \/ status = "confirmed"
               THEN {"cancelled"} ELSE {})

\* api.put(`/orders/${id}/status`, { status })
statusMutationFn(id, status) ==
    [kind |-> "status", ids |-> <<id>>, status |-> status]

ToggleActionsMenu(id) ==
    /\ Rendered
    /\ id \in Range(Ids(filteredAndSortedOrders))
    /\ showActionsMenu' = IF showActionsMenu = id THEN 0 ELSE id
    /\ UNCHANGED <<orders, searchTerm, sortBy, sortOrder, viewMode, selectedOrders>>
    /\ UNCHANGED netVars
    /\ Render

UpdateStatus(id, status) ==
    /\ Rendered
    /\ showActionsMenu = id
    /\ \E k \in 1..Len(filteredAndSortedOrders) :
          /\ filteredAndSortedOrders[k].id = id
          /\ status \in OfferedTransitions(viewMode, filteredAndSortedOrders[k].status)
    /\ Len(inflight) < MaxInflight
    /\ inflight' = Append(inflight, statusMutationFn(id, status))
    /\ UNCHANGED <<viewVars, queryStatus, isFetching, isInvalidated, toast>>
    /\ UNCHANGED <<authVars, formVars, mutVars, pagesVars>>

\* updateStatusMutation.onSuccess
StatusOnSuccess ==
    /\ InvalidateOrders
    /\ toast' = "Order status updated"
    /\ showActionsMenu' = 0

\* updateStatusMutation.onError
StatusOnError ==
    /\ toast' = "Failed to update order status"
    /\ UNCHANGED <<showActionsMenu, queryStatus, isFetching, isInvalidated>>

StatusRespond(i, ok) ==
    /\ i \in 1..Len(inflight)
    /\ inflight[i].kind = "status"
    /\ inflight' = RemoveAt(inflight, i)
    /\ IF ok THEN StatusOnSuccess ELSE StatusOnError
    /\ UNCHANGED <<orders, searchTerm, sortBy, sortOrder, viewMode, selectedOrders>>
    /\ Render

NextStatus ==
    \/ \E c \in StatusCollections : FetchResolve(c)
    \/ FetchReject
    \/ Refetch
    \/ \E t \in NetSearchTerms : SetSearchTerm(t)
    \/ \E b \in SortKeys : SetSortBy(b)
    \/ ToggleSortOrder
    \/ \E m \in ViewModes : SetViewMode(m)
    \/ \E id \in 1..Cardinality(OrderPool) : ToggleActionsMenu(id)
    \/ \E id \in 1..Cardinality(OrderPool), st \in Statuses : UpdateStatus(id, st)
    \/ \E i \in 1..MaxInflight, ok \in BOOLEAN : StatusRespond(i, ok)

SpecStatus == InitNet /\ [][NextStatus]_vars

(***************************************************************************)
(* Properties of the Orders view.                                          *)
(***************************************************************************)
IdSet(s) == Range(Ids(s))
Loaded == IF orders = None THEN <<>> ELSE orders[1]

\* C1: select-all, invoked when the selection is not exactly the id set of
\* the search-narrowed list, makes the selection exactly that id set; invoked
\* when it is, makes it empty; afterwards no selected id is excluded by the
\* active search.
C1_SelectAllToggles ==
    [][handleSelectAll =>
          /\ IF Range(selectedOrders) # IdSet(filteredAndSortedOrders)
             THEN Range(selectedOrders') = IdSet(filteredAndSortedOrders)
             ELSE selectedOrders' = <<>>
          /\ Range(selectedOrders') \subseteq IdSet(filteredAndSortedOrders')]_vars

\* C2: a bulk action on n >= 1 selected orders appends exactly one bulk
\* request carrying exactly the selected ids and the chosen status, and keeps
\* the selection; its success response clears the selection and invalidates
\* the orders query; its failure response changes neither the selection nor
\* the query.
C2_BulkAction ==
    [][/\ \A st \in BulkTargets :
             handleBulkAction(st) =>
                /\ Len(selectedOrders) >= 1
                /\ Len(inflight') = Len(inflight) + 1
                /\ Front(inflight') = inflight
                /\ Last(inflight').kind = "bulk"
                /\ Last(inflight').ids = selectedOrders
                /\ Last(inflight').status = st
                /\ selectedOrders' = selectedOrders
                /\ isInvalidated' = isInvalidated
       /\ \A i \in 1..MaxInflight :
             /\ BulkRespond(i, TRUE) =>
                   /\ selectedOrders' = <<>>
                   /\ isInvalidated'
                   /\ Len(inflight') = Len(inflight) - 1
             /\ BulkRespond(i, FALSE) =>
                   /\ selectedOrders' = selectedOrders
                   /\ isInvalidated' = isInvalidated
                   /\ isFetching' = isFetching
                   /\ Len(inflight') = Len(inflight) - 1]_vars

\* C2 witness: a bulk request has failed and the selection is still there.
C2_Witness ==
    /\ toast = "Failed to update orders"
    /\ Len(selectedOrders) >= 1
    /\ inflight = <<>>
    /\ ~isInvalidated

LegalTargets(status) ==
    CASE status = "pending" -> {"confirmed", "cancelled"}
      [] status = "confirmed" -> {"fulfilled", "cancelled"}
      [] OTHER -> {}

\* C6: for every displayed order the actions menu offers, in card mode and in
\* table mode alike, exactly the transitions pending -> confirmed | cancelled
\* and confirmed -> fulfilled | cancelled, and none for fulfilled or
\* cancelled; every status request issued from the menu is such a transition
\* from the order's loaded status.
C6_StatusActions ==
    /\ [](\A k \in 1..Len(filteredAndSortedOrders), m \in ViewModes :
             OfferedTransitions(m, filteredAndSortedOrders[k].status)
                = LegalTargets(filteredAndSortedOrders[k].status))
    /\ [][\A id \in 1..Cardinality(OrderPool), st \in Statuses :
             UpdateStatus(id, st) =>
                /\ Last(inflight') = [kind |-> "status", ids |-> <<id>>, status |-> st]
                /\ \E k \in 1..Len(Loaded) :
                      /\ Loaded[k].id = id
                      /\ st \in LegalTargets(Loaded[k].status)]_vars

\* C6 witness: a confirmed order's menu has issued "fulfilled" in table mode
\* while a fulfilled order is on display.
C6_Witness ==
    /\ inflight # <<>>
    /\ inflight[1].kind = "status"
    /\ inflight[1].status = "fulfilled"
    /\ viewMode = "table"
    /\ \E k \in 1..Len(filteredAndSortedOrders) :
          filteredAndSortedOrders[k].status = "fulfilled"

Chars == {"a", "b", "A", "B"}
IsSubstring(t, s) == \E i \in 1..(Len(s) + 1), j \in 0..Len(s) : SubSeq(s, i, j) = t
SearchableFields(order) ==
    {order.guest_name, order.guest_email}
        \cup {r.title : r \in Range(order.upsell)}
        \cup {r.name : r \in Range(order.property)}
        \cup {r.name : r \in Range(order.vendor)}
CaseVariants(t) ==
    {v \in [1..Len(t) -> Chars] : toLowerCase(v) = toLowerCase(t)}

\* C7: an order is in the filtered list iff the lower-cased search term is a
\* substring of the lower-cased value of one of its present searchable
\* fields, and every letter-case variant of the term gives the same list.
C7_SearchMatches ==
    /\ \A k \in 1..Len(Loaded) :
          Loaded[k].id \in IdSet(filteredAndSortedOrders)
             <=> \E f \in SearchableFields(Loaded[k]) :
                    IsSubstring(toLowerCase(searchTerm), toLowerCase(f))
    /\ \A v \in CaseVariants(searchTerm) :
          FilteredAndSortedOrders(orders, v, sortBy, sortOrder)
             = filteredAndSortedOrders

\* C7 witness: a mixed-case term keeps some orders and drops others.
C7_Witness ==
    /\ searchTerm = <<"B", "a">>
    /\ Len(filteredAndSortedOrders) >= 1
    /\ Len(filteredAndSortedOrders) < Len(Loaded)

DomainRank(status) ==
    CHOOSE r \in 1..4 : <<"pending", "confirmed", "fulfilled", "cancelled">>[r] = status

\* C8: sorted by status, the list runs pending, confirmed, fulfilled,
\* cancelled when ascending and the reverse when descending.
C8_StatusSort ==
    sortBy = "status" =>
        \A i, j \in 1..Len(filteredAndSortedOrders) :
            i < j =>
                IF sortOrder = "asc"
                THEN DomainRank(filteredAndSortedOrders[i].status)
                        <= DomainRank(filteredAndSortedOrders[j].status)
                ELSE DomainRank(filteredAndSortedOrders[i].status)
                        >= DomainRank(filteredAndSortedOrders[j].status)

\* C8 witness: [pending, cancelled, confirmed] sorted ascending by status is
\* [pending, confirmed, cancelled].
C8_Witness ==
    /\ Ids(Loaded) = <<1, 2, 3>>
    /\ sortBy = "status"
    /\ sortOrder = "asc"
    /\ Ids(filteredAndSortedOrders) = <<1, 3, 2>>

SortKeyOf(order, by) ==
    IF by = "date" THEN 10 * order.created_at[1] + order.created_at[2]
    ELSE order.amount

C9_Sorted ==
    sortBy \in {"date", "amount"} =>
        /\ Range(filteredAndSortedOrders)
              = {Loaded[k] : k \in {n \in 1..Len(Loaded) :
                                       matchesSearch(Loaded[n], searchTerm)}}
        /\ Cardinality(Range(filteredAndSortedOrders)) = Len(filteredAndSortedOrders)
        /\ \A i, j \in 1..Len(filteredAndSortedOrders) :
              i < j =>
                 IF sortOrder = "asc"
                 THEN SortKeyOf(filteredAndSortedOrders[i], sortBy)
                         <= SortKeyOf(filteredAndSortedOrders[j], sortBy)
                 ELSE SortKeyOf(filteredAndSortedOrders[i], sortBy)
                         >= SortKeyOf(filteredAndSortedOrders[j], sortBy)

\* C9: sorted by date or amount, the list is a permutation of the
\* search-matching orders, non-decreasing in the key when ascending and
\* non-increasing when descending; the toggle switches between the two
\* directions, and no control reorders the loaded collection.
C9_DateAmountSort ==
    /\ []C9_Sorted
    /\ [][/\ ToggleSortOrder =>
                /\ sortOrder' # sortOrder
                /\ sortOrder' \in SortOrders
                /\ sortBy' = sortBy
          /\ orders' = orders]_vars

\* C9 witness: amounts 10, 5, 20 sorted descending are 20, 10, 5.
C9_Witness ==
    /\ Ids(Loaded) = <<1, 2, 3>>
    /\ sortBy = "amount"
    /\ sortOrder = "desc"
    /\ Ids(filteredAndSortedOrders) = <<3, 1, 2>>

RECURSIVE SumAmounts(_)
SumAmounts(s) == IF s = <<>> THEN 0 ELSE s[1].amount + SumAmounts(Tail(s))
NumberWithStatus(s, status) == Cardinality({k \in 1..Len(s) : s[k].status = status})

\* C10: the statistics are those of the whole loaded collection, and a step
\* that leaves the collection alone (search, sort, selection) leaves them
\* alone.
C10_StatsOfLoaded ==
    /\ [](/\ stats.total = Len(Loaded)
          /\ stats.revenue = SumAmounts(Loaded)
          /\ \A st \in Statuses : stats[st] = NumberWithStatus(Loaded, st))
    /\ [][orders' = orders => stats' = stats]_vars

\* C10 witness: a search that matches nothing, with non-zero statistics.
C10_Witness ==
    /\ searchTerm = <<"a", "a">>
    /\ Len(selectedOrders) >= 1
    /\ filteredAndSortedOrders = <<>>
    /\ stats.total = 3
    /\ stats.revenue > 0
    /\ stats.pending = 1

(***************************************************************************)
(* Session store (AuthProvider, part_001 35-85).                           *)
(***************************************************************************)
StartupTokens == {NULL, "t0"}
LoginTokens == {"t1", "t2"}
Users == {"owner", "manager"}
\* error.response?.data?.message of a rejected POST /login: absent, empty, or text.
LoginMessages == {NULL, "", "Invalid credentials"}

OrdersIdle ==
    /\ orders = None
    /\ searchTerm = <<>>
    /\ sortBy = "date"
    /\ sortOrder = "desc"
    /\ viewMode = "card"
    /\ selectedOrders = <<>>
    /\ showActionsMenu = 0
    /\ filteredAndSortedOrders = <<>>
    /\ stats = Stats(None)
    /\ queryStatus = "loading"
    /\ isFetching = FALSE
    /\ isInvalidated = FALSE
    /\ inflight = <<>>
    /\ toast = ""

\* The state after the first render and its effect: token is read from
\* localStorage, and initAuth has either sent GET /me or cleared isLoading.
InitSession ==
    /\ OrdersIdle /\ FormIdle /\ MutationsIdle /\ PagesIdle
    /\ storedToken \in StartupTokens
    /\ token = storedToken
    /\ user = NULL
    /\ authLoading = (token # NULL)
    /\ meInFlight = IF token # NULL THEN 1 ELSE 0
    /\ loginInFlight = 0
    /\ lastSessionOp = "startup"
    /\ loginError = [message |-> NULL, thrown |-> NULL]

\* useEffect(..., [token]): initAuth runs again when a render has a new token.
TokenEffect(newToken) ==
    IF newToken = token THEN UNCHANGED meInFlight
    ELSE IF newToken # NULL THEN meInFlight' = meInFlight + 1
         ELSE UNCHANGED meInFlight

\* isLoading after the effect: initAuth with no token clears it at once.
LoadingAfterEffect(newToken) ==
    IF newToken # token /\ newToken = NULL THEN FALSE ELSE authLoading

\* initAuth, try branch: GET /me answered.
MeResolve(u) ==
    /\ meInFlight > 0
    /\ meInFlight' = meInFlight - 1
    /\ user' = u
    /\ authLoading' = FALSE
    /\ lastSessionOp' = "meOk"
    /\ UNCHANGED <<storedToken, token, loginInFlight, loginError>>
    /\ UNCHANGED <<viewVars, netVars, formVars, mutVars, pagesVars>>

removeItemKeeping(stored) == stored

\* localStorage.removeItem('token'): what getItem('token') returns afterwards.
removeItem(stored) == NULL

\* initAuth, catch branch: GET /me rejected.
MeReject ==
    /\ meInFlight > 0
    /\ meInFlight' = meInFlight - 1
    /\ storedToken' = removeItem(storedToken)
    /\ token' = NULL
    /\ authLoading' = FALSE
    /\ lastSessionOp' = "meRejected"
    /\ UNCHANGED <<user, loginInFlight, loginError>>
    /\ UNCHANGED <<viewVars, netVars, formVars, mutVars, pagesVars>>

LoginStart ==
    /\ loginInFlight + meInFlight < MaxPending
    /\ loginInFlight' = loginInFlight + 1
    /\ UNCHANGED <<storedToken, token, user, authLoading, meInFlight, lastSessionOp,
                   loginError>>
    /\ UNCHANGED <<viewVars, netVars, formVars, mutVars, pagesVars>>

LoginResolve(access_token, userData) ==
    /\ loginInFlight > 0
    /\ loginInFlight' = loginInFlight - 1
    /\ storedToken' = access_token
    /\ token' = access_token
    /\ user' = userData
    /\ TokenEffect(access_token)
    /\ authLoading' = LoadingAfterEffect(access_token)
    /\ lastSessionOp' = "login"
    /\ UNCHANGED loginError
    /\ UNCHANGED <<viewVars, netVars, formVars, mutVars, pagesVars>>

LoginErrorAlwaysFallback(message) == "Login failed"

\* error.response?.data?.message || 'Login failed'
LoginError(message) ==
    IF message = NULL \/ message = "" THEN "Login failed" ELSE message

\* login, catch branch: POST /login rejected; the Error is thrown to the caller.
LoginReject(message) ==
    /\ loginInFlight > 0
    /\ loginInFlight' = loginInFlight - 1
    /\ lastSessionOp' = "loginFailed"
    /\ loginError' = [message |-> message, thrown |-> LoginError(message)]
    /\ UNCHANGED <<storedToken, token, user, authLoading, meInFlight>>
    /\ UNCHANGED <<viewVars, netVars, formVars, mutVars, pagesVars>>

logout ==
    /\ storedToken' = removeItem(storedToken)
    /\ token' = NULL
    /\ user' = NULL
    /\ TokenEffect(NULL)
    /\ authLoading' = LoadingAfterEffect(NULL)
    /\ lastSessionOp' = "logout"
    /\ UNCHANGED <<loginInFlight, loginError>>
    /\ UNCHANGED <<viewVars, netVars, formVars, mutVars, pagesVars>>

NextSession ==
    \/ \E u \in Users : MeResolve(u)
    \/ MeReject
    \/ LoginStart
    \/ \E t \in LoginTokens, u \in Users : LoginResolve(t, u)
    \/ \E message \in LoginMessages : LoginReject(message)
    \/ logout

SpecSession == InitSession /\ [][NextSession]_vars

LoggedOut == storedToken = NULL /\ token = NULL /\ user = NULL

\* C3: after logout, and after a rejected GET /me whenever it runs, the
\* persisted token is removed, the in-memory token is null and the user is
\* null.
C3_TeardownLoggedOut ==
    lastSessionOp \in {"logout", "meRejected"} => LoggedOut

(***************************************************************************)
(* Mutations and the query cache.  Every useMutation of the client, with   *)
(* the cache keys its onSuccess and onError handlers invalidate.           *)
(***************************************************************************)
OrdersMutations ==
    ("order.status" :> {"orders"}) @@ ("order.bulk" :> {"orders"})

PropertyFormMutations ==
    ("property.create" :> {"properties"}) @@
    ("property.update" :> {"properties", "property"}) @@
    ("property.delete" :> {"properties"})

PropertiesMutations == ("properties.delete" :> {"properties"})

VendorFormMutations ==
    ("vendor.create" :> {"vendors"}) @@
    ("vendor.update" :> {"vendors", "vendor"})

VendorsMutations == ("vendors.delete" :> {"vendors"})

\* An upsell update that refreshes the list only.
UpsellFormMutationsListOnly ==
    ("upsell.create" :> {"upsells"}) @@ ("upsell.update" :> {"upsells"})

UpsellFormMutations ==
    ("upsell.create" :> {"upsells"}) @@
    ("upsell.update" :> {"upsells", "upsell"})

UpsellsMutations ==
    ("upsells.delete" :> {"upsells"}) @@ ("upsells.toggle" :> {"upsells"})

\* stripe.connect invalidates only on a response reporting completed onboarding.
SettingsMutations(onboarding_completed) ==
    ("profile.update" :> {"user-profile"}) @@
    ("password.change" :> {}) @@
    ("stripe.connect" :> IF onboarding_completed THEN {"user-profile"} ELSE {})

MutationTable(onboarding_completed) ==
    OrdersMutations @@ PropertyFormMutations @@ PropertiesMutations @@
    VendorFormMutations @@ VendorsMutations @@ UpsellFormMutations @@
    UpsellsMutations @@ SettingsMutations(onboarding_completed)

MutationKinds == DOMAIN MutationTable(TRUE)

onSuccessInvalidates(kind, onboarding_completed) ==
    MutationTable(onboarding_completed)[kind]

onErrorInvalidatesAsOnSuccess(kind) == MutationTable(TRUE)[kind]

\* Every onError handler only shows a toast.
onErrorInvalidates(kind) == {}

InitMutations ==
    /\ OrdersIdle /\ SessionIdle /\ FormIdle /\ PagesIdle
    /\ mutations = <<>>
    /\ cacheInvalidations = {}

\* mutation.mutate(variables): the request is sent; no handler has run.
Mutate(kind) ==
    /\ Len(mutations) < MaxMutations
    /\ mutations' = Append(mutations, [kind |-> kind, outcome |-> "pending"])
    /\ UNCHANGED cacheInvalidations
    /\ UNCHANGED <<viewVars, netVars, authVars, formVars, pagesVars>>

Invalidated(i, keys) == { [key |-> k, cause |-> i] : k \in keys }

MutationSucceeds(i, onboarding_completed) ==
    /\ mutations[i].outcome = "pending"
    /\ mutations' = [mutations EXCEPT ![i].outcome = "ok"]
    /\ cacheInvalidations' = cacheInvalidations \cup
           Invalidated(i, onSuccessInvalidates(mutations[i].kind, onboarding_completed))
    /\ UNCHANGED <<viewVars, netVars, authVars, formVars, pagesVars>>

MutationFails(i) ==
    /\ mutations[i].outcome = "pending"
    /\ mutations' = [mutations EXCEPT ![i].outcome = "error"]
    /\ cacheInvalidations' = cacheInvalidations \cup
           Invalidated(i, onErrorInvalidates(mutations[i].kind))
    /\ UNCHANGED <<viewVars, netVars, authVars, formVars, pagesVars>>

\* Settings, return from Stripe with stripe_success: an invalidation that no
\* mutation causes (cause 0).
StripeCallback ==
    /\ cacheInvalidations' = cacheInvalidations \cup Invalidated(0, {"user-profile"})
    /\ UNCHANGED mutations
    /\ UNCHANGED <<viewVars, netVars, authVars, formVars, pagesVars>>

NextMutations ==
    \/ \E kind \in MutationKinds : Mutate(kind)
    \/ \E i \in DOMAIN mutations, b \in BOOLEAN : MutationSucceeds(i, b)
    \/ \E i \in DOMAIN mutations : MutationFails(i)
    \/ StripeCallback

SpecMutations == InitMutations /\ [][NextMutations]_vars

CausedBy(i) == { c \in cacheInvalidations : c.cause = i }

\* C4: a mutation invalidates cache keys only after its own success
\* response: while it is pending and after it failed nothing has been
\* invalidated on its behalf, and what a succeeded mutation invalidated is
\* among its own keys (all of them, but for a Stripe connect whose
\* response does not report completed onboarding).
C4_InvalidateOnlyAfterSuccess ==
    \A i \in DOMAIN mutations :
        LET m == mutations[i]
            keys == { c.key : c \in CausedBy(i) } IN
        /\ m.outcome \in {"pending", "error"} => keys = {}
        /\ m.outcome = "ok" =>
               /\ keys \subseteq MutationTable(TRUE)[m.kind]
               /\ m.kind # "stripe.connect" => keys = MutationTable(TRUE)[m.kind]

C4_Witness ==
    \E i, j \in DOMAIN mutations :
        /\ mutations[i].outcome = "ok" /\ CausedBy(i) # {}
        /\ mutations[j].outcome = "error"
        /\ mutations[i].kind = mutations[j].kind

(***************************************************************************)
(* Entity forms (PropertyForm.tsx, UpsellForm.tsx, VendorForm.tsx).        *)
(* An image value is NULL (undefined), "" or a URL.  The vendor form has   *)
(* no image.                                                               *)
(***************************************************************************)
FormKinds == {"property", "upsell", "vendor"}
ExistingImages == {NULL, "old"}      \* the loaded entity's image URL, if any
Files == {"f1", "f2"}
UploadUrls == {"u1", "u2"}
ServerMessages == {NULL, "Validation failed"}   \* error.response?.data?.message

NoToast == [level |-> "none", text |-> ""]
ToastSuccess(text) == [level |-> "success", text |-> text]
ToastError(text) == [level |-> "error", text |-> text]

\* useForm defaultValues: UpsellForm declares image_url: '', PropertyForm
\* declares no hero_image_url, VendorForm has no image field.
DefaultImage(kind) == IF kind = "upsell" THEN "" ELSE NULL

\* The effect that copies the loaded entity into the form.
LoadedImage(kind, existing) ==
    CASE kind = "upsell" -> (IF existing = NULL THEN "" ELSE existing)
      [] kind = "property" -> (IF existing = NULL THEN DefaultImage(kind) ELSE existing)
      [] OTHER -> DefaultImage(kind)

LoadedPreview(kind, existing) == IF kind = "vendor" THEN NULL ELSE existing

ReadAsDataURL(file) == <<"data", file>>

\* GET /<collection>/<id>, issued by the single-entity query.
FetchRequest == [type |-> "fetch", submit |-> 0, body |-> NULL]

\* The form as mounted: isEditing = Boolean(id); the single-entity query is
\* enabled, and so fetching, exactly when editing.
InitForm ==
    /\ OrdersIdle /\ SessionIdle /\ MutationsIdle /\ PagesIdle
    /\ formKind \in FormKinds
    /\ isEditing \in BOOLEAN
    /\ entityQuery = IF isEditing THEN "loading" ELSE "idle"
    /\ formRequests = IF isEditing THEN <<FetchRequest>> ELSE <<>>
    /\ imageUrlField = DefaultImage(formKind)
    /\ imagePreview = NULL
    /\ selectedFile = NULL
    /\ submits = <<>>
    /\ observed = 0
    /\ formToast = NoToast
    /\ formOpen = TRUE

FormFrame == UNCHANGED <<viewVars, netVars, authVars, mutVars, pagesVars>>

\* if (isLoading) return the skeleton: the form is not on screen.
FormRendered == formOpen /\ entityQuery # "loading"

\* The single-entity query answers; the effect fills the form.
EntityLoadResolve(existing) ==
    /\ entityQuery = "loading"
    /\ entityQuery' = "success"
    /\ imageUrlField' = LoadedImage(formKind, existing)
    /\ imagePreview' = LoadedPreview(formKind, existing)
    /\ UNCHANGED <<formKind, isEditing, selectedFile, submits, observed,
                   formRequests, formToast, formOpen>>
    /\ FormFrame

\* The single-entity query fails: the form renders with its defaults.
EntityLoadReject ==
    /\ entityQuery = "loading"
    /\ entityQuery' = "error"
    /\ UNCHANGED <<formKind, isEditing, imageUrlField, imagePreview, selectedFile,
                   submits, observed, formRequests, formToast, formOpen>>
    /\ FormFrame

\* The file input is rendered only while there is no preview.
handleImageUpload(file, valid) ==
    /\ FormRendered
    /\ formKind # "vendor"
    /\ imagePreview = NULL
    /\ IF valid
       THEN /\ selectedFile' = file
            /\ imagePreview' = ReadAsDataURL(file)
            /\ UNCHANGED formToast
       ELSE /\ formToast' = ToastError("Please select a valid image file")
            /\ UNCHANGED <<selectedFile, imagePreview>>
    /\ UNCHANGED <<formKind, isEditing, entityQuery, imageUrlField, submits,
                   observed, formRequests, formOpen>>
    /\ FormFrame

\* The X button over the preview.
RemoveImage ==
    /\ FormRendered
    /\ imagePreview # NULL
    /\ imagePreview' = NULL
    /\ selectedFile' = NULL
    /\ imageUrlField' = ""
    /\ UNCHANGED <<formKind, isEditing, entityQuery, submits, observed,
                   formRequests, formToast, formOpen>>
    /\ FormFrame

\* createMutation.isLoading || updateMutation.isLoading
MutationIsLoading == observed # 0 /\ submits[observed].phase = "sent"

UploadRequest(k, file) == [type |-> "upload", submit |-> k, body |-> file]

imageUrlKeepingFormValue(dataImage, uploadedUrl) == dataImage

\* imageUrl = uploadResponse.data.url
imageUrlAfterUpload(dataImage, uploadedUrl) == uploadedUrl

SubmitMutationAlwaysCreate(editing) == "create"

\* if (isEditing) updateMutation.mutate(...) else createMutation.mutate(...)
SubmitMutation(editing) == IF editing THEN "update" ELSE "create"

\* updateMutation.mutate(submitData) / createMutation.mutate(submitData)
EntityRequest(k, imageUrl) ==
    [type |-> SubmitMutation(isEditing), submit |-> k, body |-> imageUrl]

\* The mutationFn of each hook: api.put(`/<collection>/${id}`) for update,
\* api.post('/<collection>') for create; the upload and the single-entity
\* query use POST /upload-image and GET /<collection>/<id>.
RequestMethod(type) ==
    CASE type = "update" -> "PUT"
      [] type = "create" -> "POST"
      [] type = "upload" -> "POST"
      [] OTHER -> "GET"

RequestTarget(type) ==
    CASE type = "update" -> "entity"
      [] type = "create" -> "collection"
      [] type = "upload" -> "upload-image"
      [] OTHER -> "entity"

onSubmit ==
    /\ FormRendered
    /\ ~MutationIsLoading
    /\ Len(submits) < MaxSubmits
    /\ LET k == Len(submits) + 1 IN
       IF selectedFile # NULL
       THEN /\ submits' = Append(submits,
                  [file |-> selectedFile, dataImage |-> imageUrlField,
                   phase |-> "uploading", url |-> NULL])
            /\ formRequests' = Append(formRequests, UploadRequest(k, selectedFile))
            /\ UNCHANGED observed
       ELSE /\ submits' = Append(submits,
                  [file |-> NULL, dataImage |-> imageUrlField,
                   phase |-> "sent", url |-> NULL])
            /\ formRequests' = Append(formRequests, EntityRequest(k, imageUrlField))
            /\ observed' = k
    /\ UNCHANGED <<formKind, isEditing, entityQuery, imageUrlField, imagePreview,
                   selectedFile, formToast, formOpen>>
    /\ FormFrame

\* onSubmit resumes after the awaited upload.
UploadResolve(k, url) ==
    /\ submits[k].phase = "uploading"
    /\ submits' = [submits EXCEPT ![k].phase = "sent", ![k].url = url]
    /\ formRequests' = Append(formRequests,
           EntityRequest(k, imageUrlAfterUpload(submits[k].dataImage, url)))
    /\ observed' = k
    /\ UNCHANGED <<formKind, isEditing, entityQuery, imageUrlField, imagePreview,
                   selectedFile, formToast, formOpen>>
    /\ FormFrame

\* onSubmit, catch block.
UploadReject(k) ==
    /\ submits[k].phase = "uploading"
    /\ submits' = [submits EXCEPT ![k].phase = "uploadFailed"]
    /\ formToast' = ToastError("Failed to upload image")
    /\ UNCHANGED <<formKind, isEditing, entityQuery, imageUrlField, imagePreview,
                   selectedFile, observed, formRequests, formOpen>>
    /\ FormFrame

\* The useMutation whose handlers run for a submission of this form.
FormMutationKind ==
    CASE formKind = "property" -> IF isEditing THEN "property.update" ELSE "property.create"
      [] formKind = "upsell" -> IF isEditing THEN "upsell.update" ELSE "upsell.create"
      [] OTHER -> IF isEditing THEN "vendor.update" ELSE "vendor.create"

SavedToast == ToastSuccess(IF isEditing THEN "updated successfully!"
                                        ELSE "created successfully!")

\* PropertyForm shows a fixed text; VendorForm and UpsellForm show
\* error.response?.data?.message || the fixed text.
SaveFailedToast(message) ==
    LET fallback == IF isEditing THEN "Failed to update" ELSE "Failed to create" IN
    ToastError(IF formKind = "property" \/ message = NULL THEN fallback ELSE message)

\* createMutation / updateMutation: onSuccess invalidates, notifies and
\* navigates to the list; onError notifies.
EntityRespond(k, ok, message) ==
    /\ submits[k].phase = "sent"
    /\ IF ok
       THEN /\ submits' = [submits EXCEPT ![k].phase = "done"]
            /\ cacheInvalidations' = cacheInvalidations \cup
                   Invalidated(k, onSuccessInvalidates(FormMutationKind, TRUE))
            /\ formToast' = SavedToast
            /\ formOpen' = FALSE
       ELSE /\ submits' = [submits EXCEPT ![k].phase = "failed"]
            /\ cacheInvalidations' = cacheInvalidations \cup
                   Invalidated(k, onErrorInvalidates(FormMutationKind))
            /\ formToast' = SaveFailedToast(message)
            /\ UNCHANGED formOpen
    /\ UNCHANGED <<formKind, isEditing, entityQuery, imageUrlField, imagePreview,
                   selectedFile, observed, formRequests>>
    /\ UNCHANGED <<viewVars, netVars, authVars, mutations, pagesVars>>

NextForm ==
    \/ \E existing \in ExistingImages : EntityLoadResolve(existing)
    \/ EntityLoadReject
    \/ \E f \in Files, valid \in BOOLEAN : handleImageUpload(f, valid)
    \/ RemoveImage
    \/ onSubmit
    \/ \E k \in DOMAIN submits, url \in UploadUrls : UploadResolve(k, url)
    \/ \E k \in DOMAIN submits : UploadReject(k)
    \/ \E k \in DOMAIN submits, ok \in BOOLEAN, message \in ServerMessages :
          EntityRespond(k, ok, message)

SpecForm == InitForm /\ [][NextForm]_vars

RequestsOf(k, types) ==
    { i \in DOMAIN formRequests :
        formRequests[i].submit = k /\ formRequests[i].type \in types }

EntityTypes == {"create", "update"}

\* C5: a submit with a selected file issues the upload first and the entity
\* request only after the upload succeeded, carrying the returned URL; a
\* failed (or unanswered) upload has no entity request; a submit without a
\* file issues no upload and its entity request carries the form's image
\* value as it was.
C5_UploadBeforeEntity ==
    \A k \in DOMAIN submits :
        LET s == submits[k]
            uploads == RequestsOf(k, {"upload"})
            entities == RequestsOf(k, EntityTypes) IN
        IF s.file # NULL
        THEN /\ Cardinality(uploads) = 1
             /\ \A i \in uploads : formRequests[i].body = s.file
             /\ s.phase \in {"uploading", "uploadFailed"} => entities = {}
             /\ s.phase \in {"sent", "done", "failed"} =>
                    /\ Cardinality(entities) = 1
                    /\ \A i \in entities :
                          /\ formRequests[i].body = s.url
                          /\ s.url \in UploadUrls
                          /\ \A j \in uploads : j < i
        ELSE /\ uploads = {}
             /\ Cardinality(entities) = 1
             /\ \A i \in entities : formRequests[i].body = s.dataImage

C5_Witness ==
    /\ Len(submits) = 2
    /\ submits[1].file # NULL /\ submits[1].phase = "uploadFailed"
    /\ submits[2].file # NULL /\ submits[2].phase = "done"
    /\ submits[2].dataImage = ""
    /\ \E i \in RequestsOf(2, EntityTypes) : formRequests[i].body = submits[2].url

(***************************************************************************)
(* Selection frame of the Orders view.                                     *)
(***************************************************************************)
SymDiff(a, b) == (a \ b) \cup (b \ a)

\* C11: changing the search term, the sort key or the sort direction leaves
\* the set of selected ids unchanged, and toggling one order's checkbox
\* changes the membership of that id and of no other.
C11_SelectionFrame ==
    /\ [][((\E t \in SearchTerms : SetSearchTerm(t))
            \/ (\E b \in SortKeys : SetSortBy(b))
            \/ ToggleSortOrder)
          => Range(selectedOrders') = Range(selectedOrders)]_vars
    /\ [][\A id \in 1..Cardinality(OrderPool) :
             handleSelectOrder(id) =>
                SymDiff(Range(selectedOrders'), Range(selectedOrders)) = {id}]_vars

C11_Witness ==
    /\ Len(selectedOrders) = 2
    /\ sortBy = "amount" /\ sortOrder = "asc"
    /\ \E id \in Range(selectedOrders) : id \notin IdSet(filteredAndSortedOrders)
    /\ \E id \in Range(selectedOrders) : id \in IdSet(filteredAndSortedOrders)

(***************************************************************************)
(* Outcome of a form submission.                                           *)
(***************************************************************************)
CollectionKey(kind) ==
    CASE kind = "property" -> "properties"
      [] kind = "upsell" -> "upsells"
      [] OTHER -> "vendors"

EntityKey(kind) == kind

InvalidatedFor(k, cache) == { c.key : c \in { x \in cache : x.cause = k } }

SubmissionFails ==
    \/ \E k \in DOMAIN submits, message \in ServerMessages :
          EntityRespond(k, FALSE, message)
    \/ \E k \in DOMAIN submits : UploadReject(k)

FailureEffects ==
    /\ UNCHANGED cacheInvalidations
    /\ UNCHANGED formOpen
    /\ formToast'.level = "error"

\* C12 as stated: every successful create or update from a form invalidates
\* both the collection and the single-entity cache entry, notifies success
\* and navigates to the list; a failure invalidates nothing, does not
\* navigate and notifies an error.
C12_BothKeysOnEverySuccess ==
    /\ [][\A k \in 1..MaxSubmits, message \in ServerMessages :
             (k \in DOMAIN submits /\ EntityRespond(k, TRUE, message)) =>
                /\ InvalidatedFor(k, cacheInvalidations') =
                       {CollectionKey(formKind), EntityKey(formKind)}
                /\ formToast'.level = "success"
                /\ ~formOpen']_vars
    /\ [][SubmissionFails => FailureEffects]_vars

\* C12, amended: a successful update invalidates the collection and the
\* single-entity cache entry, a successful create invalidates the collection
\* only (the new entity has no cache entry); both notify success and
\* navigate to the list; a failure invalidates nothing, does not navigate
\* and notifies an error.
C12_FormOutcome ==
    /\ [][\A k \in 1..MaxSubmits, message \in ServerMessages :
             (k \in DOMAIN submits /\ EntityRespond(k, TRUE, message)) =>
                /\ InvalidatedFor(k, cacheInvalidations') =
                       IF isEditing
                       THEN {CollectionKey(formKind), EntityKey(formKind)}
                       ELSE {CollectionKey(formKind)}
                /\ InvalidatedFor(k, cacheInvalidations) = {}
                /\ formToast'.level = "success"
                /\ ~formOpen']_vars
    /\ [][SubmissionFails => FailureEffects]_vars

C12_Witness ==
    /\ Len(submits) = 2
    /\ isEditing
    /\ formKind = "upsell"
    /\ submits[1].phase = "failed"
    /\ submits[2].phase = "done"
    /\ InvalidatedFor(1, cacheInvalidations) = {}
    /\ InvalidatedFor(2, cacheInvalidations) = {"upsells", "upsell"}
    /\ ~formOpen

(***************************************************************************)
(* Create mode versus edit mode.                                           *)
(***************************************************************************)
RequestsOfType(types) ==
    { i \in DOMAIN formRequests : formRequests[i].type \in types }

\* The requests a submission addresses to the entity or its collection (the
\* image upload goes to /upload-image).
SubmissionRequests == RequestsOfType({"create", "update"})

MaxPrompts == 3                      \* confirmation prompts in one behaviour
EntityIds == {1, 2}
DeleteSites == {"properties.list", "upsells.list", "vendors.list", "property.form"}
ListSites == DeleteSites \ {"property.form"}

\* The useMutation each delete button calls.
DeleteMutationKind(site) ==
    CASE site = "properties.list" -> "properties.delete"
      [] site = "upsells.list" -> "upsells.delete"
      [] site = "vendors.list" -> "vendors.delete"
      [] OTHER -> "property.delete"

InitDelete ==
    /\ OrdersIdle /\ SessionIdle /\ FormIdle /\ MutationsIdle /\ ChartIdle /\ OpsIdle /\ FiltersIdle
    /\ LaterIdle
    /\ deleteSite \in DeleteSites
    /\ prompts = <<>>
    /\ deleteMenu = 0
    /\ deleteToast = NoToast
    /\ deleteNavigated = FALSE

DeleteFrame ==
    UNCHANGED <<viewVars, netVars, authVars, formVars, chartVars, opsVars, filterVars,
                laterVars>>

\* The "more" button of a list card.
ToggleDeleteMenu(id) ==
    /\ deleteSite \in ListSites
    /\ deleteMenu' = IF deleteMenu = id THEN 0 ELSE id
    /\ UNCHANGED <<deleteSite, prompts, deleteToast, deleteNavigated, mutVars>>
    /\ DeleteFrame

\* deleteMutation.isLoading of PropertyForm: its latest mutation is pending.
DeleteIsLoading ==
    Len(mutations) > 0 /\ mutations[Len(mutations)].outcome = "pending"

DeleteButtonEnabled(id) ==
    IF deleteSite \in ListSites
    THEN deleteMenu = id
    ELSE ~deleteNavigated /\ ~DeleteIsLoading

MutateWithoutConfirm(accepted) == TRUE

\* if (window.confirm(...)) mutation.mutate(...)
MutateIfConfirmed(accepted) == accepted

\* The Delete button: the prompt is answered, then the handler goes on.
ClickDelete(id, accepted) ==
    /\ DeleteButtonEnabled(id)
    /\ Len(prompts) < MaxPrompts
    /\ Len(mutations) < MaxMutations
    /\ IF MutateIfConfirmed(accepted)
       THEN /\ mutations' = Append(mutations,
                  [kind |-> DeleteMutationKind(deleteSite), outcome |-> "pending"])
            /\ prompts' = Append(prompts,
                  [id |-> id, accepted |-> accepted, mutation |-> Len(mutations) + 1])
       ELSE /\ UNCHANGED mutations
            /\ prompts' = Append(prompts,
                  [id |-> id, accepted |-> accepted, mutation |-> 0])
    /\ UNCHANGED <<deleteSite, deleteMenu, deleteToast, deleteNavigated,
                   cacheInvalidations>>
    /\ DeleteFrame

\* The list pages show a fixed text for a failed property delete and
\* error.response?.data?.message || a fixed text elsewhere.
DeleteFailedToast(message) ==
    ToastError(IF deleteSite = "properties.list" \/ message = NULL
               THEN "Failed to delete" ELSE message)

DeleteRespond(i, ok, message) ==
    /\ mutations[i].outcome = "pending"
    /\ IF ok
       THEN /\ mutations' = [mutations EXCEPT ![i].outcome = "ok"]
            /\ cacheInvalidations' = cacheInvalidations \cup
                   Invalidated(i, onSuccessInvalidates(mutations[i].kind, TRUE))
            /\ deleteToast' = ToastSuccess("deleted successfully")
            /\ deleteMenu' = 0
            /\ deleteNavigated' = (deleteSite = "property.form")
       ELSE /\ mutations' = [mutations EXCEPT ![i].outcome = "error"]
            /\ cacheInvalidations' = cacheInvalidations \cup
                   Invalidated(i, onErrorInvalidates(mutations[i].kind))
            /\ deleteToast' = DeleteFailedToast(message)
            /\ UNCHANGED <<deleteMenu, deleteNavigated>>
    /\ UNCHANGED <<deleteSite, prompts>>
    /\ DeleteFrame

NextDelete ==
    \/ \E id \in EntityIds : ToggleDeleteMenu(id)
    \/ \E id \in EntityIds, accepted \in BOOLEAN : ClickDelete(id, accepted)
    \/ \E i \in DOMAIN mutations, ok \in BOOLEAN, message \in ServerMessages :
          DeleteRespond(i, ok, message)

SpecDelete == InitDelete /\ [][NextDelete]_vars

AcceptedPrompts == { p \in DOMAIN prompts : prompts[p].accepted }

DeleteCollectionKey(site) ==
    CASE site \in {"properties.list", "property.form"} -> "properties"
      [] site = "upsells.list" -> "upsells"
      [] OTHER -> "vendors"

\* C14: a DELETE request is issued only for an accepted confirmation prompt
\* (one request per accepted prompt, none for a declined one); a declined
\* prompt changes no state; a successful delete has invalidated the
\* collection cache key.
C14_DeleteNeedsConfirm ==
    /\ [](/\ Len(mutations) = Cardinality(AcceptedPrompts)
          /\ \A p \in DOMAIN prompts :
                IF prompts[p].accepted
                THEN /\ prompts[p].mutation \in DOMAIN mutations
                     /\ mutations[prompts[p].mutation].kind = DeleteMutationKind(deleteSite)
                     /\ \A q \in DOMAIN prompts :
                           prompts[q].mutation = prompts[p].mutation => q = p
                ELSE prompts[p].mutation = 0
          /\ \A i \in DOMAIN mutations :
                mutations[i].outcome = "ok" =>
                   DeleteCollectionKey(deleteSite) \in InvalidatedFor(i, cacheInvalidations))
    /\ [][\A id \in EntityIds :
             ClickDelete(id, FALSE) =>
                UNCHANGED <<mutVars, deleteSite, deleteMenu, deleteToast,
                            deleteNavigated>>]_vars

C14_Witness ==
    /\ Len(prompts) = 3
    /\ ~prompts[1].accepted
    /\ prompts[2].accepted /\ prompts[3].accepted
    /\ mutations[1].outcome = "error"
    /\ mutations[2].outcome = "ok"
    /\ deleteSite = "vendors.list"

(***************************************************************************)
(* Analytics revenue chart (Analytics.tsx 28-57, 179-229).                 *)
(***************************************************************************)
MaxDays == 6                         \* days a revenue series can hold
BarLimit == 5                        \* slice(-5)
Periods == {"7", "30", "90"}

\* A day's totals as the backend may report them: all positive and
\* distinct, positive with ties and zeros, or all zero.
DayTotal(pattern, d) ==
    CASE pattern = "rising" -> 10 * d
      [] pattern = "gaps" -> (IF d % 3 = 0 THEN 0 ELSE 5 * ((d % 2) + 1))
      [] OTHER -> 0

TotalPatterns == {"rising", "gaps", "zero"}

RECURSIVE DaySequences(_)
\* Every sequence of n distinct days, in every order.
DaySequences(n) ==
    IF n = 0 THEN {<<>>}
    ELSE UNION { { Append(q, d) : d \in (1..MaxDays) \ Range(q) } :
                 q \in DaySequences(n - 1) }

MaxShort == 3                        \* length up to which every order is tried

Ascending == [i \in 1..MaxDays |-> i]
Descending == [i \in 1..MaxDays |-> MaxDays + 1 - i]
Rotate(q, k) == SubSeq(q, k + 1, Len(q)) \o SubSeq(q, 1, k)

\* The orders of days a series may come in: every order of up to MaxShort
\* days, and every rotation of the full run of days, ascending or descending.
DayOrders ==
    UNION { DaySequences(n) : n \in 0..MaxShort } \cup
    { Rotate(q, k) : q \in {Ascending, Descending}, k \in 0..(MaxDays - 1) }

\* What GET /dashboard/revenue-analytics may answer: RevenueData[] in any
\* order of dates.
RevenueSeries ==
    { [i \in 1..Len(q) |-> [date |-> <<q[i]>>, total |-> DayTotal(pattern, q[i])]] :
        q \in DayOrders, pattern \in TotalPatterns }

SliceFirst(s, n) == SubSeq(s, 1, IF Len(s) < n THEN Len(s) ELSE n)

\* Array.prototype.slice(-n): the last n elements, or all when fewer.
SliceLast(s, n) == SubSeq(s, IF Len(s) > n THEN Len(s) - n + 1 ELSE 1, Len(s))

dateCompareDescending(a, b) == DateGetTime(b.date) - DateGetTime(a.date)

\* (a, b) => new Date(a.date).getTime() - new Date(b.date).getTime()
dateCompare(a, b) == DateGetTime(a.date) - DateGetTime(b.date)

\* Array.prototype.sort with dateCompare.  The sort is stable: an element
\* goes after those the comparator puts before it and after the equal ones
\* that preceded it.
SortByDate(s) ==
    LET n == Len(s)
        Pos(i) == 1 + Cardinality({ j \in 1..n :
                         \/ dateCompare(s[j], s[i]) < 0
                         \/ (dateCompare(s[j], s[i]) = 0 /\ j < i) })
    IN [k \in 1..n |-> s[CHOOSE i \in 1..n : Pos(i) = k]]

RECURSIVE MathMax(_)
\* Math.max(...values) of a non-empty list.
MathMax(values) ==
    IF Len(values) = 1 THEN values[1]
    ELSE LET m == MathMax(Tail(values)) IN IF values[1] > m THEN values[1] ELSE m

RecentRevenueData(data) ==
    IF data = None THEN <<>>
    ELSE LET HasRevenue(item) == item.total > 0 IN
         SortByDate(SliceLast(SelectSeq(data[1], HasRevenue), BarLimit))

RecentMaxRevenue(recent) ==
    IF Len(recent) > 0 THEN MathMax([i \in 1..Len(recent) |-> recent[i].total]) ELSE 0

\* height = max > 0 ? (total / max) * 100 : 0, in percent, as an exact
\* fraction num / den.
BarHeight(total, max) ==
    IF max > 0 THEN [num |-> total * 100, den |-> max] ELSE [num |-> 0, den |-> 1]

\* The branch of the chart card and the bars it maps out.
Chart(loading, recent, max) ==
    IF loading THEN [branch |-> "skeleton", bars |-> <<>>]
    ELSE IF Len(recent) > 0
         THEN [branch |-> "bars",
               bars |-> [i \in 1..Len(recent) |->
                           [date |-> recent[i].date, total |-> recent[i].total,
                            height |-> BarHeight(recent[i].total, max)]]]
         ELSE [branch |-> "empty", bars |-> <<>>]

ChartRender ==
    /\ LET recent == RecentRevenueData(revenueData')
           max == RecentMaxRevenue(recent) IN
       /\ recentRevenueData' = recent
       /\ recentMaxRevenue' = max
       /\ chart' = Chart(revenueLoading', recent, max)
    /\ UNCHANGED <<viewVars, netVars, authVars, formVars, mutVars, delVars, opsVars,
                   filterVars, laterVars>>

\* The page as mounted: period '30', the revenue query fetching.
InitChart ==
    /\ OrdersIdle /\ SessionIdle /\ FormIdle /\ MutationsIdle /\ DeleteIdle /\ OpsIdle
    /\ FiltersIdle /\ LaterIdle
    /\ period = "30"
    /\ revenueData = None
    /\ revenueLoading = TRUE
    /\ recentRevenueData = <<>>
    /\ recentMaxRevenue = 0
    /\ chart = Chart(TRUE, <<>>, 0)

\* The period select: a new query key, whose data is not there yet.
SetPeriod(p) ==
    /\ p # period
    /\ period' = p
    /\ revenueData' = None
    /\ revenueLoading' = TRUE
    /\ ChartRender

RevenueResolve(series) ==
    /\ revenueLoading
    /\ revenueData' = Some(series)
    /\ revenueLoading' = FALSE
    /\ UNCHANGED period
    /\ ChartRender

RevenueReject ==
    /\ revenueLoading
    /\ revenueLoading' = FALSE
    /\ UNCHANGED <<period, revenueData>>
    /\ ChartRender

NextChart ==
    \/ \E p \in Periods : SetPeriod(p)
    \/ (revenueLoading /\ \E series \in RevenueSeries : RevenueResolve(series))
    \/ RevenueReject

SpecChart == InitChart /\ [][NextChart]_vars

(***************************************************************************)
(* Properties of the revenue chart.                                        *)
(***************************************************************************)
Series == IF revenueData = None THEN <<>> ELSE revenueData[1]
PositiveEntries == { i \in DOMAIN Series : Series[i].total > 0 }
LastFivePositive ==
    { i \in PositiveEntries : Cardinality({ j \in PositiveEntries : j > i }) < 5 }
BarItems == { [date |-> chart.bars[k].date, total |-> chart.bars[k].total] :
              k \in DOMAIN chart.bars }

\* C15: for every series the backend returned, the chart shows at most 5
\* bars, each of an entry with strictly positive total, and they are the
\* last five strictly positive entries of the series; a series with no
\* positive entry shows no bar and the empty state.
C15_ChartBars ==
    (revenueData # None /\ ~revenueLoading) =>
        /\ Len(chart.bars) <= 5
        /\ \A k \in DOMAIN chart.bars : chart.bars[k].total > 0
        /\ Len(chart.bars) = Cardinality(LastFivePositive)
        /\ BarItems = { Series[i] : i \in LastFivePositive }
        /\ chart.branch = IF PositiveEntries = {} THEN "empty" ELSE "bars"

C15_Witness ==
    /\ ~revenueLoading
    /\ Cardinality(PositiveEntries) = 6
    /\ Len(chart.bars) = 5
    /\ Series[1].total > 0
    /\ Series[1] \notin BarItems
    /\ Series[2].date[1] < Series[1].date[1]

BarTotals == { chart.bars[k].total : k \in DOMAIN chart.bars }
LargestBarTotal == CHOOSE m \in BarTotals : \A t \in BarTotals : t <= m

MaxPolls == 2                        \* interval fetches in one behaviour
OperationKinds == MutationKinds \cup {"register", "export"}
Responses == {"ok", "error", "refused"}

\* An answer the handlers report as a failure: a rejected request, or a
\* Stripe connect answer whose body says success: false.
Refusable(kind) == kind = "stripe.connect"

ToastErrorTwice(i) == <<i, i>>

\* Every failure path calls toast.error once.
ToastErrorOnce(i) == <<i>>

InitOperations ==
    /\ OrdersIdle /\ SessionIdle /\ FormIdle /\ MutationsIdle
    /\ DeleteIdle /\ ChartIdle /\ FiltersIdle /\ LaterIdle
    /\ userActions = 0
    /\ errorToasts = <<>>
    /\ profileLoaded = FALSE
    /\ pollRequests = 0

OperationsFrame ==
    UNCHANGED <<viewVars, netVars, authVars, formVars, delVars, chartVars, filterVars,
                laterVars>>

\* A click or submit: the handler sends its request once.
StartOperation(kind) ==
    /\ Len(mutations) < MaxMutations
    /\ userActions' = userActions + 1
    /\ mutations' = Append(mutations, [kind |-> kind, outcome |-> "pending"])
    /\ UNCHANGED <<cacheInvalidations, errorToasts, profileLoaded, pollRequests>>
    /\ OperationsFrame

OperationResponds(i, response) ==
    /\ mutations[i].outcome = "pending"
    /\ response = "refused" => Refusable(mutations[i].kind)
    /\ mutations' = [mutations EXCEPT ![i].outcome = response]
    /\ errorToasts' = IF response = "ok" THEN errorToasts
                      ELSE errorToasts \o ToastErrorOnce(i)
    /\ cacheInvalidations' = cacheInvalidations \cup
          (IF mutations[i].kind \notin MutationKinds THEN {}
           ELSE IF response = "ok"
                THEN Invalidated(i, onSuccessInvalidates(mutations[i].kind, TRUE))
                ELSE Invalidated(i, onErrorInvalidates(mutations[i].kind)))
    /\ UNCHANGED <<userActions, profileLoaded, pollRequests>>
    /\ OperationsFrame

\* Settings: the user-profile query answers, which enables the status query.
ProfileLoads ==
    /\ ~profileLoaded
    /\ profileLoaded' = TRUE
    /\ UNCHANGED <<mutVars, userActions, errorToasts, pollRequests>>
    /\ OperationsFrame

\* refetchInterval: 5000 on the stripe-connect-status query (enabled: !!user).
StatusPoll ==
    /\ profileLoaded
    /\ pollRequests < MaxPolls
    /\ pollRequests' = pollRequests + 1
    /\ UNCHANGED <<mutVars, userActions, errorToasts, profileLoaded>>
    /\ OperationsFrame

NextOperations ==
    \/ \E kind \in OperationKinds : StartOperation(kind)
    \/ \E i \in DOMAIN mutations, response \in Responses : OperationResponds(i, response)
    \/ ProfileLoads
    \/ StatusPoll

SpecOperations == InitOperations /\ [][NextOperations]_vars

ToastsFor(i) == { t \in DOMAIN errorToasts : errorToasts[t] = i }

OncePerAction ==
    /\ Len(mutations) = userActions
    /\ \A i \in DOMAIN mutations :
          Cardinality(ToastsFor(i)) =
             IF mutations[i].outcome \in {"error", "refused"} THEN 1 ELSE 0

LoginRejected ==
    /\ loginInFlight' = loginInFlight - 1
    /\ lastSessionOp' = "loginFailed"

LoginSucceeded ==
    /\ loginInFlight' = loginInFlight - 1
    /\ lastSessionOp' = "login"

\* C18: a rejected login throws an error whose message is the response
\* body's message when there is one and 'Login failed' otherwise, and leaves
\* the persisted token, the in-memory token and the user unchanged; a token
\* is written to storage or to memory only by a successful login, which
\* sets the stored token, the token and the user together.
C18_LoginFailure ==
    /\ [][LoginRejected =>
            /\ UNCHANGED <<storedToken, token, user>>
            /\ loginError'.thrown =
                  IF loginError'.message \in {"Invalid credentials"}
                  THEN loginError'.message ELSE "Login failed"]_vars
    /\ [][(storedToken' # storedToken /\ storedToken' # NULL)
            \/ (token' # token /\ token' # NULL) => LoginSucceeded]_vars
    /\ [][LoginSucceeded =>
            /\ storedToken' \in LoginTokens
            /\ token' = storedToken'
            /\ user' \in Users]_vars

C18_Witness ==
    /\ lastSessionOp = "loginFailed"
    /\ loginError.message = "Invalid credentials"
    /\ loginError.thrown = "Invalid credentials"
    /\ token = "t1" /\ storedToken = "t1" /\ user = "owner"

(***************************************************************************)
(* Orders: the server-side filters.  The query key holds the three         *)
(* filters, so each combination is its own query; the query function sends *)
(* the non-empty ones as parameters (Orders.tsx 45-54).                    *)
(***************************************************************************)
MaxRequests == 3                     \* GET /orders sent in one behaviour
StatusOptions == {"", "pending", "confirmed", "fulfilled", "cancelled"}
DateOptions == {"", "today", "week", "month"}
VendorOptions == {""}                \* the select has the one option
FilterNames == {"status", "date", "vendor"}
FilterOptions(name) ==
    CASE name = "status" -> StatusOptions
      [] name = "date" -> DateOptions
      [] name = "vendor" -> VendorOptions

\* What the server answers; which orders it returns is its own business.
FilterCollections == { <<PoolById(1), PoolById(3)>> }

ParamsWithEmpty(status, date, vendor) ==
    <<<<"status", status>>, <<"date", date>>, <<"vendor", vendor>>>>

\* new URLSearchParams() and the three conditional appends.
Params(status, date, vendor) ==
    (IF status # "" THEN <<<<"status", status>>>> ELSE <<>>)
    \o (IF date # "" THEN <<<<"date", date>>>> ELSE <<>>)
    \o (IF vendor # "" THEN <<<<"vendor", vendor>>>> ELSE <<>>)

OrdersKey(status, date, vendor) == <<"orders", status, date, vendor>>

OrdersRequest(status, date, vendor) ==
    [key |-> OrdersKey(status, date, vendor),
     params |-> Params(status, date, vendor),
     pending |-> TRUE]

\* The data the cache holds under a key: undefined until a response came.
Cached(cache, key) == IF key \in DOMAIN cache THEN cache[key] ELSE None

\* The page mounted: the query of the unfiltered key is fetching.
InitFilters ==
    /\ OrdersIdle /\ SessionIdle /\ FormIdle /\ MutationsIdle
    /\ DeleteIdle /\ ChartIdle /\ OpsIdle /\ LaterIdle
    /\ statusFilter = ""
    /\ dateFilter = ""
    /\ vendorFilter = ""
    /\ ordersRequests = <<OrdersRequest("", "", "")>>
    /\ ordersCache = <<>>

\* A filter select changes: the component observes the query of the new key,
\* which shows what the cache holds for it and fetches.
SetFilter(name, value) ==
    /\ Rendered
    /\ Len(ordersRequests) < MaxRequests
    /\ value # (CASE name = "status" -> statusFilter
                  [] name = "date" -> dateFilter
                  [] name = "vendor" -> vendorFilter)
    /\ statusFilter' = IF name = "status" THEN value ELSE statusFilter
    /\ dateFilter' = IF name = "date" THEN value ELSE dateFilter
    /\ vendorFilter' = IF name = "vendor" THEN value ELSE vendorFilter
    /\ ordersRequests' =
          Append(ordersRequests, OrdersRequest(statusFilter', dateFilter', vendorFilter'))
    /\ orders' = Cached(ordersCache, OrdersKey(statusFilter', dateFilter', vendorFilter'))
    /\ queryStatus' = IF orders' = None THEN "loading" ELSE "success"
    /\ isFetching' = TRUE
    /\ UNCHANGED <<searchTerm, sortBy, sortOrder, viewMode, selectedOrders,
                   showActionsMenu, isInvalidated, inflight, toast, ordersCache>>
    /\ filteredAndSortedOrders' =
           FilteredAndSortedOrders(orders', searchTerm, sortBy, sortOrder)
    /\ stats' = Stats(orders')
    /\ UNCHANGED <<authVars, formVars, mutVars, delVars, chartVars, opsVars, laterVars>>

CurrentKey == OrdersKey(statusFilter, dateFilter, vendorFilter)

\* GET /orders answers: the data goes into the cache under the request's
\* key, and onto the page when that is the key the page observes.
OrdersResolve(i, collection) ==
    /\ ordersRequests[i].pending
    /\ ordersRequests' = [ordersRequests EXCEPT ![i].pending = FALSE]
    /\ ordersCache' = (ordersRequests[i].key :> Some(collection)) @@ ordersCache
    /\ orders' = Cached(ordersCache', CurrentKey)
    /\ queryStatus' = IF orders' = None THEN "loading" ELSE "success"
    /\ isFetching' = \E j \in DOMAIN ordersRequests' :
                        /\ ordersRequests'[j].pending
                        /\ ordersRequests'[j].key = CurrentKey
    /\ UNCHANGED <<searchTerm, sortBy, sortOrder, viewMode, selectedOrders,
                   showActionsMenu, isInvalidated, inflight, toast,
                   statusFilter, dateFilter, vendorFilter>>
    /\ filteredAndSortedOrders' =
           FilteredAndSortedOrders(orders', searchTerm, sortBy, sortOrder)
    /\ stats' = Stats(orders')
    /\ UNCHANGED <<authVars, formVars, mutVars, delVars, chartVars, opsVars, laterVars>>

NextFilters ==
    \/ \E name \in FilterNames : \E value \in FilterOptions(name) : SetFilter(name, value)
    \/ \E i \in DOMAIN ordersRequests, c \in FilterCollections : OrdersResolve(i, c)
    \/ \E t \in SearchTerms : SetSearchTerm(t)
    \/ \E b \in SortKeys : SetSortBy(b)
    \/ ToggleSortOrder
    \/ \E m \in ViewModes : SetViewMode(m)

SpecFilters == InitFilters /\ [][NextFilters]_vars

ClientSideChange ==
    <<searchTerm, sortBy, sortOrder, viewMode>>' # <<searchTerm, sortBy, sortOrder, viewMode>>

ServerFilterChange ==
    <<statusFilter, dateFilter, vendorFilter>>' # <<statusFilter, dateFilter, vendorFilter>>

NonEmptyFilters(status, date, vendor) ==
    { p \in {<<"status", status>>, <<"date", date>>, <<"vendor", vendor>>} : p[2] # "" }

\* C19: a change of the search term, the sort key, the sort direction or
\* the view mode sends no orders request; a change of the status, date or
\* vendor filter sends one orders request, whose parameters are exactly the
\* non-empty ones among the three filters, each once, and nothing else.
C19_TwoTierFiltering ==
    /\ [][ClientSideChange => ordersRequests' = ordersRequests]_vars
    /\ [][ServerFilterChange =>
            /\ Len(ordersRequests') = Len(ordersRequests) + 1
            /\ Front(ordersRequests') = ordersRequests
            /\ Range(Last(ordersRequests').params) =
                  NonEmptyFilters(statusFilter', dateFilter', vendorFilter')
            /\ Len(Last(ordersRequests').params) =
                  Cardinality(NonEmptyFilters(statusFilter', dateFilter', vendorFilter'))]_vars

C19_Witness ==
    /\ Len(ordersRequests) = 3
    /\ statusFilter = "pending" /\ dateFilter = "week" /\ vendorFilter = ""
    /\ ordersRequests[1].params = <<>>
    /\ ordersRequests[2].params = <<<<"status", "pending">>>>
    /\ ordersRequests[3].params = <<<<"status", "pending">>, <<"date", "week">>>>
    /\ searchTerm = <<"a">> /\ sortBy = "amount" /\ viewMode = "table"

(***************************************************************************)
(* Orders: the two render modes (Orders.tsx 446-725).                      *)
(***************************************************************************)
TableRowsReversed(list) == [i \in 1..Len(list) |-> list[Len(list) + 1 - i].id]

\* Card mode: filteredAndSortedOrders.map(order => <div key={order.id} ...>).
CardItems(list) == Ids(list)

\* Table mode: filteredAndSortedOrders.map(order => <tr key={order.id} ...>).
TableRows(list) == Ids(list)

BulkSent ==
    /\ Len(inflight') = Len(inflight) + 1
    /\ Last(inflight').kind = "bulk"

\* C20: card mode and table mode show the same derived list in the same
\* order; a switch of the view mode leaves the search term, the server
\* filters, the sort key, the sort direction, the selection and the derived
\* list unchanged; and a bulk action, which both modes offer, acts on the
\* one selection whichever mode is showing.
C20_RenderModes ==
    /\ [](CardItems(filteredAndSortedOrders) = TableRows(filteredAndSortedOrders))
    /\ [][viewMode' # viewMode =>
            UNCHANGED <<searchTerm, statusFilter, dateFilter, vendorFilter, sortBy,
                        sortOrder, selectedOrders, orders, filteredAndSortedOrders>>]_vars
    /\ [][BulkSent =>
            /\ Last(inflight').ids = selectedOrders
            /\ UNCHANGED viewMode]_vars

C20_Witness ==
    /\ viewMode = "card"
    /\ Len(filteredAndSortedOrders) = 2
    /\ Len(selectedOrders) = 2
    /\ Len(inflight) = 1
    /\ inflight[1].kind = "bulk"
    /\ inflight[1].ids = selectedOrders

(***************************************************************************)
(* Sign-up page (SignUp.tsx): react-hook-form validation, then one POST    *)
(* /register.                                                              *)
(***************************************************************************)
MaxRegisters == 2                    \* POST /register sent in one behaviour
NameMinLength == 2
PasswordMinLength == 8

LowerLetters == {"a", "b"}
UpperLetters == {"A", "B"}
Digits == {"1"}
Letters == LowerLetters \cup UpperLetters

\* Field values a user can type.
Names == { <<>>, <<"a">>, <<"a", "b">> }
Emails ==
    { <<>>,
      <<"A", "1", "@", "b", ".", "a", ".", "A", "B">>,
      <<"a", "@", "b", ".", "a">>,
      <<"a", "b", ".", "a", "b">>,
      <<"a", "!", "@", "b", ".", "a", "b">> }
Passwords ==
    { <<>>,
      <<"a", "A", "1", "a", "A", "1", "a">>,
      <<"a", "A", "1", "a", "A", "1", "a", "A">>,
      <<"a", "a", "a", "a", "a", "a", "a", "1">>,
      <<"A", "A", "A", "A", "A", "A", "A", "1">>,
      <<"a", "a", "a", "a", "a", "a", "a", "A">> }
\* What a user can type into the confirmation field.
Confirmations ==
    { <<>>,
      <<"a", "A", "1", "a", "A", "1", "a", "A">>,
      <<"a", "a", "a", "a", "a", "a", "a", "1">> }
Roles == {"owner", "admin"}
RegisterMessages == {NULL, "The email has already been taken."}

\* required, on a text field: the value must not be empty.
Required(value) == value # <<>>

\* required, on a checkbox: it must be ticked.
RequiredChecked(value) == value = TRUE

MinLength(value, n) == Len(value) >= n

\* /^[A-Z0-9._%+-]+@[A-Z0-9.-]+\.[A-Z]{2,}$/i
EmailPattern(e) ==
    LET LocalChars == Letters \cup Digits \cup {".", "_", "%", "+", "-"}
        DomainChars == Letters \cup Digits \cup {".", "-"}
    IN \E at \in 1..Len(e) : \E dot \in 1..Len(e) :
          /\ e[at] = "@"
          /\ at > 1
          /\ \A k \in 1..(at - 1) : e[k] \in LocalChars
          /\ dot > at + 1
          /\ \A k \in (at + 1)..(dot - 1) : e[k] \in DomainChars
          /\ e[dot] = "."
          /\ Len(e) - dot >= 2
          /\ \A k \in (dot + 1)..Len(e) : e[k] \in Letters

\* /^(?=.*[a-z])(?=.*[A-Z])(?=.*\d)/
PasswordPattern(p) ==
    /\ \E k \in 1..Len(p) : p[k] \in LowerLetters
    /\ \E k \in 1..Len(p) : p[k] \in UpperLetters
    /\ \E k \in 1..Len(p) : p[k] \in Digits

ConfirmationAnything(value, password) == TRUE

\* validate: value => value === password
ConfirmationMatches(value, password) == value = password

\* The fields react-hook-form reports in errors when the form is submitted.
Validate(data) ==
    { f \in {"name"} :
         ~(Required(data.name) /\ MinLength(data.name, NameMinLength)) }
    \cup { f \in {"email"} : ~(Required(data.email) /\ EmailPattern(data.email)) }
    \cup { f \in {"role"} : data.role \notin Roles }
    \cup { f \in {"password"} :
              ~(/\ Required(data.password)
                /\ MinLength(data.password, PasswordMinLength)
                /\ PasswordPattern(data.password)) }
    \cup { f \in {"password_confirmation"} :
              ~(/\ Required(data.password_confirmation)
                /\ ConfirmationMatches(data.password_confirmation, data.password)) }
    \cup { f \in {"agree_to_terms"} : ~RequiredChecked(data.agree_to_terms) }

RegisterBody(data) ==
    [name |-> data.name, email |-> data.email, password |-> data.password,
     password_confirmation |-> data.password_confirmation, role |-> data.role]

\* The sign-up route is shown with the form at its default values.
InitSignUp ==
    /\ OrdersIdle /\ SessionIdle /\ FormIdle /\ MutationsIdle
    /\ DeleteIdle /\ ChartIdle /\ OpsIdle /\ FiltersIdle /\ ListIdle /\ ToggleIdle
    /\ ExportIdle
    /\ signUpData = [name |-> <<>>, email |-> <<>>, password |-> <<>>,
                     password_confirmation |-> <<>>, role |-> "owner",
                     agree_to_terms |-> FALSE]
    /\ signUpSubmitted = FALSE
    /\ signUpErrors = {}
    /\ signUpLoading = FALSE
    /\ registerRequests = <<>>
    /\ signUpToast = NoToast
    /\ location = "/signup"

SignUpFrame ==
    UNCHANGED <<viewVars, netVars, authVars, formVars, mutVars, delVars, chartVars,
                opsVars, filterVars, listVars, toggleVars, exportVars>>

\* The user edits one field; once the form was submitted the edited field
\* is validated again on every change.
SetSignUpField(field, value) ==
    /\ location = "/signup"
    /\ signUpData[field] # value
    /\ signUpData' = [signUpData EXCEPT ![field] = value]
    /\ signUpErrors' = IF signUpSubmitted
                       THEN (signUpErrors \ {field}) \cup (Validate(signUpData') \cap {field})
                       ELSE signUpErrors
    /\ UNCHANGED <<signUpSubmitted, signUpLoading, registerRequests, signUpToast, location>>
    /\ SignUpFrame

\* handleSubmit(onSubmit): validation, and onSubmit up to its await when no
\* field failed.
SubmitSignUp ==
    /\ location = "/signup"
    /\ ~signUpLoading
    /\ signUpSubmitted' = TRUE
    /\ signUpErrors' = Validate(signUpData)
    /\ IF signUpErrors' = {}
       THEN /\ Len(registerRequests) < MaxRegisters
            /\ signUpLoading' = TRUE
            /\ registerRequests' =
                  Append(registerRequests,
                         [body |-> RegisterBody(signUpData), outcome |-> "pending"])
       ELSE UNCHANGED <<signUpLoading, registerRequests>>
    /\ UNCHANGED <<signUpData, signUpToast, location>>
    /\ SignUpFrame

\* onSubmit after the await: try, then finally.
RegisterResolve(i) ==
    /\ registerRequests[i].outcome = "pending"
    /\ registerRequests' = [registerRequests EXCEPT ![i].outcome = "ok"]
    /\ signUpToast' = ToastSuccess("Account created successfully! Please log in.")
    /\ location' = "/login"
    /\ signUpLoading' = FALSE
    /\ UNCHANGED <<signUpData, signUpSubmitted, signUpErrors>>
    /\ SignUpFrame

\* onSubmit after the await: catch, then finally.
RegisterReject(i, message) ==
    /\ registerRequests[i].outcome = "pending"
    /\ registerRequests' = [registerRequests EXCEPT ![i].outcome = "error"]
    /\ signUpToast' =
          ToastError(IF message = NULL \/ message = "" THEN "Registration failed"
                     ELSE message)
    /\ signUpLoading' = FALSE
    /\ UNCHANGED <<signUpData, signUpSubmitted, signUpErrors, location>>
    /\ SignUpFrame

NextSignUp ==
    \/ \E v \in Names : SetSignUpField("name", v)
    \/ \E v \in Emails : SetSignUpField("email", v)
    \/ \E v \in Passwords : SetSignUpField("password", v)
    \/ \E v \in Confirmations : SetSignUpField("password_confirmation", v)
    \/ \E v \in Roles : SetSignUpField("role", v)
    \/ \E v \in BOOLEAN : SetSignUpField("agree_to_terms", v)
    \/ SubmitSignUp
    \/ \E i \in DOMAIN registerRequests : RegisterResolve(i)
    \/ \E i \in DOMAIN registerRequests, m \in RegisterMessages : RegisterReject(i, m)

SpecSignUp == InitSignUp /\ [][NextSignUp]_vars

RegistrationGate(data) ==
    /\ Len(data.name) >= 2
    /\ EmailPattern(data.email)
    /\ Len(data.password) >= 8
    /\ \E k \in DOMAIN data.password : data.password[k] \in {"a", "b"}
    /\ \E k \in DOMAIN data.password : data.password[k] \in {"A", "B"}
    /\ \E k \in DOMAIN data.password : data.password[k] = "1"
    /\ data.password_confirmation = data.password
    /\ data.agree_to_terms = TRUE

RegisterSettles(outcome) ==
    \E i \in DOMAIN registerRequests :
       /\ registerRequests[i].outcome = "pending"
       /\ registerRequests'[i].outcome = outcome

\* C21: POST /register is sent only for a form whose name has at least 2
\* characters, whose email matches the address pattern, whose password has
\* at least 8 characters with a lower-case letter, an upper-case letter and
\* a digit, whose confirmation equals the password and whose terms box is
\* ticked, and it carries that form's values; when the request succeeds the
\* view goes to the login page, when it fails the view stays and shows the
\* error, and isLoading is false again in both cases.
C21_RegistrationGate ==
    /\ [][registerRequests' # registerRequests /\ Len(registerRequests') > Len(registerRequests)
            => /\ RegistrationGate(signUpData)
               /\ Last(registerRequests').body = RegisterBody(signUpData)]_vars
    /\ [][RegisterSettles("ok") =>
            /\ location' = "/login"
            /\ signUpToast'.level = "success"
            /\ signUpLoading' = FALSE]_vars
    /\ [][RegisterSettles("error") =>
            /\ location' = "/signup"
            /\ signUpToast'.level = "error"
            /\ signUpToast'.text \in {"Registration failed",
                                      "The email has already been taken."}
            /\ signUpLoading' = FALSE]_vars

C21_Witness ==
    /\ Len(registerRequests) = 2
    /\ registerRequests[1].outcome = "error"
    /\ registerRequests[2].outcome = "ok"
    /\ registerRequests[2].body.role = "admin"
    /\ location = "/login"
    /\ signUpLoading = FALSE

(***************************************************************************)
(* Entity list pages: the client-side search of Properties (part_002),     *)
(* Upsells and Vendors (part_004).                                         *)
(***************************************************************************)
MaxListed == 2                       \* entities in a loaded collection
ListKinds == {"property", "vendor", "upsell"}

Property(id, name, description) ==
    [id |-> id, name |-> name, description |-> description]
Vendor(id, name, email, service_type) ==
    [id |-> id, name |-> name, email |-> email, service_type |-> service_type]
Upsell(id, title, description, category) ==
    [id |-> id, title |-> title, description |-> description, category |-> category]

\* An optional description is None (undefined) or Some(text).
PropertyPool ==
    { Property(1, <<"A", "b">>, None),
      Property(2, <<"b">>, Some(<<"B", "a">>)),
      Property(3, <<"b", "b">>, Some(<<>>)),
      Property(4, <<"a", "a">>, Some(<<"b">>)) }
VendorPool ==
    { Vendor(1, <<"A", "b">>, <<"b">>, <<"b">>),
      Vendor(2, <<"b">>, <<"B", "a">>, <<"b">>),
      Vendor(3, <<"b">>, <<"b">>, <<"a", "A">>),
      Vendor(4, <<"b">>, <<"b", "b">>, <<"B">>) }
UpsellPool ==
    { Upsell(1, <<"B", "A">>, None, <<"b">>),
      Upsell(2, <<"b">>, Some(<<"a", "b">>), <<"b">>),
      Upsell(3, <<"b">>, None, <<"A", "a">>),
      Upsell(4, <<"b", "b">>, Some(<<"b">>), <<"B">>) }

EntityPool(kind) ==
    CASE kind = "property" -> PropertyPool
      [] kind = "vendor" -> VendorPool
      [] kind = "upsell" -> UpsellPool

EntityCollections(kind) ==
    UNION { { s \in [1..n -> EntityPool(kind)] :
                \A i, j \in 1..n : i # j => s[i].id # s[j].id } : n \in 0..MaxListed }

\* x?.toLowerCase().includes(term): undefined (falsy) when x is absent.
OptionalTextIncludes(x, term) ==
    IF x = None THEN FALSE ELSE includes(toLowerCase(x[1]), term)

propertyMatches(property, term) ==
    \/ includes(toLowerCase(property.name), toLowerCase(term))
    \/ OptionalTextIncludes(property.description, toLowerCase(term))

upsellMatchesWithoutCategory(upsell, term) ==
    \/ includes(toLowerCase(upsell.title), toLowerCase(term))
    \/ OptionalTextIncludes(upsell.description, toLowerCase(term))

upsellMatches(upsell, term) ==
    \/ includes(toLowerCase(upsell.title), toLowerCase(term))
    \/ OptionalTextIncludes(upsell.description, toLowerCase(term))
    \/ includes(toLowerCase(upsell.category), toLowerCase(term))

vendorMatches(vendor, term) ==
    \/ includes(toLowerCase(vendor.name), toLowerCase(term))
    \/ includes(toLowerCase(vendor.email), toLowerCase(term))
    \/ includes(toLowerCase(vendor.service_type), toLowerCase(term))

\* properties?.filter(...) || []
filteredProperties(properties, term) ==
    IF properties = None THEN <<>>
    ELSE LET Keep(property) == propertyMatches(property, term)
         IN SelectSeq(properties[1], Keep)

filteredUpsells(upsells, term) ==
    IF upsells = None THEN <<>>
    ELSE LET Keep(upsell) == upsellMatches(upsell, term)
         IN SelectSeq(upsells[1], Keep)

filteredVendors(vendors, term) ==
    IF vendors = None THEN <<>>
    ELSE LET Keep(vendor) == vendorMatches(vendor, term)
         IN SelectSeq(vendors[1], Keep)

Filtered(kind, data, term) ==
    CASE kind = "property" -> filteredProperties(data, term)
      [] kind = "vendor" -> filteredVendors(data, term)
      [] kind = "upsell" -> filteredUpsells(data, term)

\* One of the list pages mounted, its query not answered yet.
InitLists ==
    /\ OrdersIdle /\ SessionIdle /\ FormIdle /\ MutationsIdle
    /\ DeleteIdle /\ ChartIdle /\ OpsIdle /\ FiltersIdle /\ SignUpIdle /\ ToggleIdle
    /\ ExportIdle
    /\ listKind \in ListKinds
    /\ listData = None
    /\ listSearchTerm = <<>>
    /\ listed = Filtered(listKind, None, <<>>)

ListsFrame ==
    UNCHANGED <<viewVars, netVars, authVars, formVars, mutVars, delVars, chartVars,
                opsVars, filterVars, signVars, toggleVars, exportVars>>

\* The collection query answers (first fetch or a refetch).
ListResolve(collection) ==
    /\ listData' = Some(collection)
    /\ listed' = Filtered(listKind, listData', listSearchTerm)
    /\ UNCHANGED <<listKind, listSearchTerm>>
    /\ ListsFrame

\* The search box exists once the loading skeleton is gone.
SetListSearchTerm(t) ==
    /\ listData # None
    /\ listSearchTerm' = t
    /\ listed' = Filtered(listKind, listData, t)
    /\ UNCHANGED <<listKind, listData>>
    /\ ListsFrame

NextLists ==
    \/ \E collection \in EntityCollections(listKind) : ListResolve(collection)
    \/ \E t \in SearchTerms : SetListSearchTerm(t)

SpecLists == InitLists /\ [][NextLists]_vars

\* The text of the searchable fields an entity has.
SearchableTexts(kind, e) ==
    CASE kind = "property" ->
            {e.name} \cup {e.description[k] : k \in DOMAIN e.description}
      [] kind = "vendor" -> {e.name, e.email, e.service_type}
      [] kind = "upsell" ->
            {e.title, e.category} \cup {e.description[k] : k \in DOMAIN e.description}

Lowered(s) ==
    [i \in DOMAIN s |-> IF s[i] = "A" THEN "a" ELSE IF s[i] = "B" THEN "b" ELSE s[i]]

Occurs(t, s) ==
    \E from \in 1..(Len(s) + 1) :
       /\ from + Len(t) - 1 <= Len(s)
       /\ \A k \in 1..Len(t) : s[from + k - 1] = t[k]

ShouldBeListed(kind, e, term) ==
    \E text \in SearchableTexts(kind, e) : Occurs(Lowered(term), Lowered(text))

\* C22: on the property, vendor and upsell lists an entity of the loaded
\* collection is listed iff the lower-cased search term occurs in the
\* lower-cased text of at least one of its searchable fields; an absent
\* description matches nothing, and the empty term lists every entity.
C22_EntityListSearch ==
    /\ listData # None =>
          /\ \A i \in DOMAIN listData[1] :
                (listData[1][i] \in Range(listed))
                   <=> ShouldBeListed(listKind, listData[1][i], listSearchTerm)
          /\ Range(listed) \subseteq Range(listData[1])
          /\ listSearchTerm = <<>> => listed = listData[1]
    /\ listData = None => listed = <<>>

C22_Witness ==
    /\ listKind = "upsell"
    /\ listSearchTerm = <<"a", "a">>
    /\ Len(listData[1]) = 2
    /\ Len(listed) = 1
    /\ listed[1].id = 3
    /\ listData[1][1].id = 1

(***************************************************************************)
(* Orders: the selection across fetches of different filter combinations.  *)
(***************************************************************************)
\* GET /orders is rejected: the cache keeps what it has under the key, and a
\* query without data goes to the error state.
OrdersReject(i) ==
    /\ ordersRequests[i].pending
    /\ ordersRequests' = [ordersRequests EXCEPT ![i].pending = FALSE]
    /\ isFetching' = \E j \in DOMAIN ordersRequests' :
                        /\ ordersRequests'[j].pending
                        /\ ordersRequests'[j].key = CurrentKey
    /\ queryStatus' = IF ordersRequests[i].key # CurrentKey THEN queryStatus
                      ELSE IF orders = None /\ ~isFetching' THEN "error"
                      ELSE queryStatus
    /\ UNCHANGED <<viewVars, isInvalidated, inflight, toast,
                   statusFilter, dateFilter, vendorFilter, ordersCache>>
    /\ UNCHANGED <<authVars, formVars, mutVars, delVars, chartVars, opsVars, laterVars>>

NextSelection ==
    \/ \E name \in FilterNames : \E value \in FilterOptions(name) : SetFilter(name, value)
    \/ \E i \in DOMAIN ordersRequests, c \in FilterCollections : OrdersResolve(i, c)
    \/ \E i \in DOMAIN ordersRequests : OrdersReject(i)
    \/ \E m \in ViewModes : SetViewMode(m)
    \/ \E id \in 1..Cardinality(OrderPool) : handleSelectOrder(id)
    \/ handleSelectAll
    \/ \E st \in BulkTargets : handleBulkAction(st)

SpecSelection == InitFilters /\ [][NextSelection]_vars

ZeroStats ==
    [total |-> 0, revenue |-> 0, pending |-> 0, confirmed |-> 0,
     fulfilled |-> 0, cancelled |-> 0]

\* C23: while the orders query has no data (the fetch failed or has not
\* answered) the derived list is empty and every statistic is 0; a
\* select-all in that state leaves the selection empty, and a bulk action in
\* that state sends no request.
C23_FailedFetch ==
    /\ [](orders = None => filteredAndSortedOrders = <<>> /\ stats = ZeroStats)
    /\ [][orders = None /\ selectedOrders' # selectedOrders => selectedOrders' = <<>>]_vars
    /\ [][orders = None => inflight' = inflight]_vars

\* C24: in every reachable state of the session store, whatever the
\* interleaving of login, logout and the completions of the GET /me checks,
\* a non-null user comes with a non-null token.
C24_UserImpliesToken == user # NULL => token # NULL

\* C25: after every completed session operation (the startup read, a
\* successful or failed login, logout, an answered or rejected GET /me) the
\* in-memory token equals the token in persisted storage: both the same
\* value or both absent.
C25_TokenMatchesStorage ==
    lastSessionOp \in {"startup", "login", "loginFailed", "logout", "meOk", "meRejected"}
       /\ token = storedToken

C25_Witness ==
    /\ lastSessionOp = "meRejected"
    /\ user = "owner"
    /\ token = NULL /\ storedToken = NULL
    /\ loginError.thrown = "Login failed"

LoadedIds == IF orders = None THEN {} ELSE Range(Ids(orders[1]))

\* C26: every id in the selection is the id of an order of the currently
\* loaded collection, and so is every id carried by a bulk request when it
\* is sent.
C26_NoStaleSelection ==
    /\ [](Range(selectedOrders) \subseteq LoadedIds)
    /\ [][BulkSent => Range(Last(inflight').ids) \subseteq LoadedIds]_vars

\* C27: the target status of a bulk request is a legal transition (pending
\* to confirmed or cancelled, confirmed to fulfilled or cancelled) from the
\* loaded status of every selected order; no bulk request targets a
\* fulfilled or cancelled order.
C27_BulkTransitionLegal ==
    [][BulkSent /\ orders # None =>
         \A k \in DOMAIN orders[1] :
            orders[1][k].id \in Range(Last(inflight').ids)
               => Last(inflight').status \in LegalTargets(orders[1][k].status)]_vars

EntityRequestsInFlight == { k \in DOMAIN submits : submits[k].phase = "sent" }

\* C28: from one property or upsell form at most one entity create/update
\* request is in flight at any time, also when a submission starts with an
\* image upload.
C28_SingleSubmission ==
    formKind \in {"property", "upsell"} => Cardinality(EntityRequestsInFlight) <= 1

(***************************************************************************)
(* Upsells list: the Activate / Deactivate entry of an upsell's menu       *)
(* (part_004 51-63, 178-199), the backend's flag, and the refetch of the   *)
(* collection that follows a successful toggle.                            *)
(***************************************************************************)
MaxToggles == 3                      \* toggle clicks in one behaviour

\* api.put(`/upsells/${id}`, { is_active: !isActive })
toggleMutationFn(isActive) == [is_active |-> ~isActive, phase |-> "sent"]

\* The Upsells page with its collection loaded.
InitToggle ==
    /\ OrdersIdle /\ SessionIdle /\ FormIdle /\ MutationsIdle
    /\ DeleteIdle /\ ChartIdle /\ OpsIdle /\ FiltersIdle /\ SignUpIdle /\ ListIdle
    /\ ExportIdle
    /\ backendActive \in BOOLEAN
    /\ initialActive = backendActive
    /\ loadedActive = backendActive
    /\ toggleRequests = <<>>
    /\ upsellsFetch = [phase |-> "idle", is_active |-> FALSE]

ToggleFrame ==
    UNCHANGED <<viewVars, netVars, authVars, formVars, mutVars, delVars, chartVars,
                opsVars, filterVars, signVars, listVars, exportVars>>

\* The menu entry: mutate({ id: upsell.id, isActive: upsell.is_active }).
ToggleClick ==
    /\ Len(toggleRequests) < MaxToggles
    /\ toggleRequests' = Append(toggleRequests, toggleMutationFn(loadedActive))
    /\ UNCHANGED <<backendActive, initialActive, loadedActive, upsellsFetch>>
    /\ ToggleFrame

\* The backend applies a PUT: it stores the value the request carries.
ToggleApply(i) ==
    /\ toggleRequests[i].phase = "sent"
    /\ backendActive' = toggleRequests[i].is_active
    /\ toggleRequests' = [toggleRequests EXCEPT ![i].phase = "applied"]
    /\ UNCHANGED <<initialActive, loadedActive, upsellsFetch>>
    /\ ToggleFrame

\* onSuccess: invalidateQueries('upsells') starts a refetch (a running one
\* is cancelled and started again).
ToggleOnSuccess(i) ==
    /\ toggleRequests[i].phase = "applied"
    /\ toggleRequests' = [toggleRequests EXCEPT ![i].phase = "done"]
    /\ upsellsFetch' = [phase |-> "sent", is_active |-> FALSE]
    /\ UNCHANGED <<backendActive, initialActive, loadedActive>>
    /\ ToggleFrame

\* The backend answers GET /upsells with the flag it holds.
UpsellsServe ==
    /\ upsellsFetch.phase = "sent"
    /\ upsellsFetch' = [phase |-> "served", is_active |-> backendActive]
    /\ UNCHANGED <<backendActive, initialActive, loadedActive, toggleRequests>>
    /\ ToggleFrame

\* The refetch resolves: the collection on the page is replaced.
UpsellsResolve ==
    /\ upsellsFetch.phase = "served"
    /\ loadedActive' = upsellsFetch.is_active
    /\ upsellsFetch' = [phase |-> "idle", is_active |-> FALSE]
    /\ UNCHANGED <<backendActive, initialActive, toggleRequests>>
    /\ ToggleFrame

NextToggle ==
    \/ ToggleClick
    \/ \E i \in DOMAIN toggleRequests : ToggleApply(i)
    \/ \E i \in DOMAIN toggleRequests : ToggleOnSuccess(i)
    \/ UpsellsServe
    \/ UpsellsResolve

SpecToggle == InitToggle /\ [][NextToggle]_vars

ToggleApplied(i) ==
    /\ toggleRequests[i].phase = "sent"
    /\ toggleRequests'[i].phase = "applied"

\* C29: when two toggles of one upsell have been applied, in whatever order
\* their requests and the refetch of the collection ran, the backend's flag
\* is back at its original value; and each toggle request carries the
\* negation of the flag the backend holds when it applies the request.
C29_ToggleTwiceRestores ==
    /\ [](Len(toggleRequests) = 2
            /\ (\A i \in DOMAIN toggleRequests : toggleRequests[i].phase # "sent")
          => backendActive = initialActive)
    /\ [][\A i \in DOMAIN toggleRequests :
             ToggleApplied(i) => toggleRequests[i].is_active = ~backendActive]_vars

(***************************************************************************)
(* Analytics: the CSV export (Analytics.tsx 59-71, 99-106;                 *)
(* exportAccountingData, part_000 207-232).                                *)
(***************************************************************************)
MaxExports == 2                      \* export clicks in one behaviour

\* How GET /dashboard/export-accounting can end: an OK response whose body
\* is read, a non-OK status, a rejected fetch, an OK response whose body
\* cannot be read.
ExportResponses == {"ok", "httpError", "networkError", "bodyError"}

exportAccountingDataIgnoringStatus(response) ==
    IF response \in {"ok", "httpError"} THEN "resolved" ELSE "rejected"

\* exportAccountingData: rejects when fetch rejects, when !response.ok, and
\* when response.text() rejects; otherwise downloads and resolves.
exportAccountingData(response) ==
    IF response = "networkError" THEN "rejected"
    ELSE IF response = "httpError" THEN "rejected"
    ELSE IF response = "bodyError" THEN "rejected"
    ELSE "resolved"

\* The Analytics page as mounted (period '30', the revenue query fetching).
InitExport ==
    /\ OrdersIdle /\ SessionIdle /\ FormIdle /\ MutationsIdle /\ DeleteIdle /\ OpsIdle
    /\ FiltersIdle /\ SignUpIdle /\ ListIdle /\ ToggleIdle
    /\ period = "30"
    /\ revenueData = None
    /\ revenueLoading = TRUE
    /\ recentRevenueData = <<>>
    /\ recentMaxRevenue = 0
    /\ chart = Chart(TRUE, <<>>, 0)
    /\ isExporting = FALSE
    /\ exportRequests = <<>>
    /\ exportToasts = <<>>

ExportFrame ==
    UNCHANGED <<viewVars, netVars, authVars, formVars, mutVars, delVars, chartVars,
                opsVars, filterVars, signVars, listVars, toggleVars>>

\* The export button (disabled while isExporting): handleExportCSV up to the
\* await.
handleExportCSV ==
    /\ ~isExporting
    /\ Len(exportRequests) < MaxExports
    /\ isExporting' = TRUE
    /\ exportRequests' = Append(exportRequests, [period |-> period, response |-> NULL])
    /\ UNCHANGED exportToasts
    /\ ExportFrame

\* handleExportCSV after the await: try or catch, then finally.
ExportSettles(i, response) ==
    /\ exportRequests[i].response = NULL
    /\ exportRequests' = [exportRequests EXCEPT ![i].response = response]
    /\ exportToasts' =
          Append(exportToasts,
                 [request |-> i,
                  level |-> IF exportAccountingData(response) = "resolved"
                            THEN "success" ELSE "error"])
    /\ isExporting' = FALSE
    /\ ExportFrame

NextExport ==
    \/ handleExportCSV
    \/ \E i \in DOMAIN exportRequests, response \in ExportResponses : ExportSettles(i, response)
    \/ \E p \in Periods : SetPeriod(p)
    \/ RevenueReject

SpecExport == InitExport /\ [][NextExport]_vars

ExportsInFlight == { i \in DOMAIN exportRequests : exportRequests[i].response = NULL }

ExportToastsOf(i) == { t \in DOMAIN exportToasts : exportToasts[t].request = i }

\* C30: isExporting is true exactly while an export request is in flight;
\* an export is started only while it is false, so at most one is in flight;
\* a completed export has exactly one notification, a success for an OK
\* response that was downloaded and a failure otherwise (a non-OK status
\* included), and a running one has none.
C30_ExportFlag ==
    /\ [](isExporting <=> ExportsInFlight # {})
    /\ [](Cardinality(ExportsInFlight) <= 1)
    /\ [][Len(exportRequests') > Len(exportRequests) => ~isExporting /\ isExporting']_vars
    /\ [](\A i \in DOMAIN exportRequests :
            IF i \in ExportsInFlight THEN ExportToastsOf(i) = {}
            ELSE /\ Cardinality(ExportToastsOf(i)) = 1
                 /\ \A t \in ExportToastsOf(i) :
                       exportToasts[t].level =
                          IF exportRequests[i].response = "ok" THEN "success" ELSE "error")

C30_Witness ==
    /\ Len(exportRequests) = 2
    /\ exportRequests[1].response = "httpError"
    /\ exportRequests[2].response = "ok"
    /\ exportRequests[2].period = "90"
    /\ ~isExporting
    /\ Len(exportToasts) = 2

=============================================================================
